---- MODULE Spec2Model ----
\* data-peek: the AI config store of the renderer (zustand store with the
\* persist middleware), the structured response generator of the main
\* process, and the chat session store of the main process.
EXTENDS Integers, Sequences, FiniteSets, TLC

VARIABLES
    \* renderer AI store (data-table.tsx 352-562)
    multiProviderConfig,  \* AIMultiProviderConfig | null
    config,               \* legacy AIConfig | null
    isConfigured,         \* boolean
    storage,              \* what the persist middleware holds under 'ai-store'
    \* main process: generateChatResponse (ai-service.ts 284-344)
    aiPhase,              \* "idle" | "awaiting" | "returned" | "rejected"
    aiCalls,              \* outbound generateObject calls issued
    aiRaw,                \* result.object of the generateObject call, or NoObject
    aiReturn,             \* what generateChatResponse settled with, or NoReturn
    \* main process: validateAPIKey (ai-service.ts 246-279)
    valPhase,             \* "idle" | "awaiting" | "returned"
    valCalls,             \* validateAPIKey calls started
    valProvider,          \* config.provider of the last call
    valOutcome,           \* what getModel and generateText did in the last call
    valReturn,            \* how the promise of the last call settled, or NoReturn
    \* main process: the callers of the chat functions on the event loop
    running,              \* the caller whose synchronous code is running, or "none"
    turns,                \* per caller: where it is and the locals of its call
    \* main process: chat session store (ai-service.ts 73-93, 346-548)
    chatStoreReady,       \* chatStore !== null
    chatHistory,          \* chatStore 'chatHistory': connection id -> stored list
    now,                  \* the clock read by new Date()
    nextId                \* ids handed out by crypto.randomUUID() so far

cfgVars == <<multiProviderConfig, config, isConfigured, storage>>
valVars == <<valPhase, valCalls, valProvider, valOutcome, valReturn>>
callVars == <<running, turns>>
aiVars == <<aiPhase, aiCalls, aiRaw, aiReturn, valVars, callVars>>
chatVars == <<chatStoreReady, chatHistory, now, nextId>>
vars == <<multiProviderConfig, config, isConfigured, storage,
          aiPhase, aiCalls, aiRaw, aiReturn,
          valPhase, valCalls, valProvider, valOutcome, valReturn,
          running, turns,
          chatStoreReady, chatHistory, now, nextId>>

\* ---------------------------------------------------------------- values

\* JavaScript null for object-valued slots (a record, so that it compares with records).
Null == [null |-> TRUE]
\* JavaScript undefined / an absent property, for string-valued slots.
Undefined == "<undefined>"
\* JavaScript null, for string-valued slots.
NullV == "<null>"

\* !!s for a string slot.
Truthy(s) == s \notin {Undefined, NullV, ""}

\* a || b for string slots.
OrElse(a, b) == IF Truthy(a) THEN a ELSE b

\* ------------------------------------------------- renderer AI config store

\* The provider ids the model exercises (three of the five AIProvider ids).
Providers == {"openai", "ollama", "anthropic"}

\* The model ids passed to setActiveModel.
ModelInputs == {"model-b"}

\* DEFAULT_MODELS of @shared/index: the provider's recommended-or-first model.
DEFAULT_MODELS(p) == "model-a"

\* The AIProviderConfig values passed to setProviderConfig: a key, a base URL
\* only (what the modal saves for ollama), and an empty object.
ProviderConfigInputs ==
    { [apiKey |-> "sk-key", baseUrl |-> Undefined],
      [apiKey |-> Undefined, baseUrl |-> "http://host"],
      [apiKey |-> Undefined, baseUrl |-> Undefined] }

\* The providers object is an ordered list of entries: Object.keys returns the
\* keys in insertion order.
HasEntry(providers, p) == \E i \in 1..Len(providers) : providers[i].id = p

EntryIndex(providers, p) == CHOOSE i \in 1..Len(providers) : providers[i].id = p

\* providers[p] (only used when HasEntry).
EntryOf(providers, p) == providers[EntryIndex(providers, p)]

\* { ...providers, [p]: pc }: an existing key keeps its place, a new one goes last.
PutEntry(providers, p, pc) ==
    LET e == [id |-> p, apiKey |-> pc.apiKey, baseUrl |-> pc.baseUrl]
    IN IF HasEntry(providers, p)
       THEN [providers EXCEPT ![EntryIndex(providers, p)] = e]
       ELSE Append(providers, e)

\* delete providers[p]
DeleteEntry(providers, p) == SelectSeq(providers, LAMBDA e : e.id # p)

NoActiveModels == [p \in Providers |-> Undefined]

\* data-table.tsx 325-334
isMultiProviderConfigured(c) ==
    IF c = Null THEN FALSE
    ELSE IF c.activeProvider = Undefined THEN FALSE
    ELSE IF ~HasEntry(c.providers, c.activeProvider) THEN FALSE
    ELSE IF c.activeProvider = "ollama" THEN TRUE
    ELSE Truthy(EntryOf(c.providers, c.activeProvider).apiKey)

\* data-table.tsx 337-350
deriveLegacyConfig(c) ==
    IF c = Null THEN Null
    ELSE IF c.activeProvider = Undefined THEN Null
    ELSE IF ~HasEntry(c.providers, c.activeProvider) THEN Null
    ELSE LET pc == EntryOf(c.providers, c.activeProvider)
         IN [provider |-> c.activeProvider,
             apiKey |-> pc.apiKey,
             model |-> OrElse(c.activeModels[c.activeProvider],
                              DEFAULT_MODELS(c.activeProvider)),
             baseUrl |-> pc.baseUrl]

\* partialize of the persist middleware: the two persisted fields.
partialize(m, ic) == [multiProviderConfig |-> m, isConfigured |-> ic]

\* set({...}) of the three config fields, followed by the middleware's write.
SetState(m, c, ic) ==
    /\ multiProviderConfig' = m
    /\ config' = c
    /\ isConfigured' = ic
    /\ storage' = partialize(m, ic)

\* The legacy AIConfig values passed to setConfig.
LegacyConfigInputs ==
    { Null,
      [provider |-> "openai", apiKey |-> "sk-key", model |-> "model-a", baseUrl |-> Undefined],
      [provider |-> "ollama", apiKey |-> Undefined, model |-> "model-b", baseUrl |-> Undefined],
      [provider |-> "anthropic", apiKey |-> "", model |-> "model-a", baseUrl |-> Undefined] }

\* The multi-provider configs passed to setMultiProviderConfig and answered by
\* window.api.ai.getMultiProviderConfig().
MultiConfigInputs ==
    { [providers |-> <<[id |-> "openai", apiKey |-> "sk-key", baseUrl |-> Undefined]>>,
       activeProvider |-> "openai", activeModels |-> NoActiveModels],
      [providers |-> <<[id |-> "ollama", apiKey |-> Undefined, baseUrl |-> Undefined]>>,
       activeProvider |-> "ollama",
       activeModels |-> [NoActiveModels EXCEPT !["ollama"] = "model-b"]],
      [providers |-> <<[id |-> "anthropic", apiKey |-> "", baseUrl |-> Undefined]>>,
       activeProvider |-> "openai", activeModels |-> NoActiveModels] }

\* data-table.tsx 365-370
setConfig(c) ==
    /\ SetState(multiProviderConfig, c,
                c # Null /\ (c.provider = "ollama" \/ Truthy(c.apiKey)))
    /\ UNCHANGED <<aiVars, chatVars>>

\* data-table.tsx 372-378
clearConfig ==
    /\ SetState(Null, Null, FALSE)
    /\ UNCHANGED <<aiVars, chatVars>>

\* data-table.tsx 381-387
setMultiProviderConfig(c) ==
    /\ SetState(c, deriveLegacyConfig(c), isMultiProviderConfigured(c))
    /\ UNCHANGED <<aiVars, chatVars>>

\* setProviderConfig making the provider it writes the active one.
setProviderConfig_Activates(p, pc) ==
    LET old == multiProviderConfig
        newConfig ==
            [providers |-> PutEntry(IF old = Null THEN <<>> ELSE old.providers, p, pc),
             activeProvider |-> p,
             activeModels |-> IF old = Null THEN NoActiveModels ELSE old.activeModels]
    IN /\ SetState(newConfig, deriveLegacyConfig(newConfig),
                   isMultiProviderConfigured(newConfig))
       /\ UNCHANGED <<aiVars, chatVars>>

\* data-table.tsx 389-404
setProviderConfig(p, pc) ==
    LET old == multiProviderConfig
        newConfig ==
            [providers |-> PutEntry(IF old = Null THEN <<>> ELSE old.providers, p, pc),
             activeProvider |-> IF old = Null THEN p ELSE OrElse(old.activeProvider, p),
             activeModels |-> IF old = Null THEN NoActiveModels ELSE old.activeModels]
    IN /\ SetState(newConfig, deriveLegacyConfig(newConfig),
                   isMultiProviderConfigured(newConfig))
       /\ UNCHANGED <<aiVars, chatVars>>

\* removeProviderConfig without the switch of the active provider.
removeProviderConfig_KeepsActive(p) ==
    IF multiProviderConfig = Null THEN UNCHANGED vars
    ELSE LET old == multiProviderConfig
             newConfig == [providers |-> DeleteEntry(old.providers, p),
                           activeProvider |-> old.activeProvider,
                           activeModels |-> old.activeModels]
         IN /\ SetState(newConfig, deriveLegacyConfig(newConfig),
                        isMultiProviderConfigured(newConfig))
            /\ UNCHANGED <<aiVars, chatVars>>

\* data-table.tsx 406-431
removeProviderConfig(p) ==
    IF multiProviderConfig = Null THEN UNCHANGED vars
    ELSE LET old == multiProviderConfig
             newProviders == DeleteEntry(old.providers, p)
             newActiveProvider ==
                 IF p = old.activeProvider
                 THEN IF Len(newProviders) > 0 THEN newProviders[1].id ELSE "openai"
                 ELSE old.activeProvider
             newConfig == [providers |-> newProviders,
                           activeProvider |-> newActiveProvider,
                           activeModels |-> old.activeModels]
         IN /\ SetState(newConfig, deriveLegacyConfig(newConfig),
                        isMultiProviderConfigured(newConfig))
            /\ UNCHANGED <<aiVars, chatVars>>

\* data-table.tsx 433-447
setActiveProvider(p) ==
    IF multiProviderConfig = Null THEN UNCHANGED vars
    ELSE LET newConfig == [multiProviderConfig EXCEPT !.activeProvider = p]
         IN /\ SetState(newConfig, deriveLegacyConfig(newConfig),
                        isMultiProviderConfigured(newConfig))
            /\ UNCHANGED <<aiVars, chatVars>>

\* ai-settings-modal.tsx 70-77: the modal's test for a saved config, on the
\* multiProviderConfig it is rendered with.
hasProviderConfig(m, providerId) ==
    IF m = Null THEN FALSE
    ELSE IF ~HasEntry(m.providers, providerId) THEN FALSE
    ELSE IF providerId = "ollama" THEN Truthy(EntryOf(m.providers, providerId).baseUrl)
    ELSE Truthy(EntryOf(m.providers, providerId).apiKey)

\* ai-settings-modal.tsx 165-173: the Set Active button, with the provider
\* selected in the modal.
handleSetActive(selectedProvider) ==
    IF ~hasProviderConfig(multiProviderConfig, selectedProvider) THEN UNCHANGED vars
    ELSE setActiveProvider(selectedProvider)

\* setActiveModel without the spread of the active models it had.
setActiveModel_Replaces(p, m) ==
    IF multiProviderConfig = Null THEN UNCHANGED vars
    ELSE LET newConfig == [multiProviderConfig EXCEPT
                              !.activeModels = [NoActiveModels EXCEPT ![p] = m]]
         IN /\ SetState(newConfig, deriveLegacyConfig(newConfig),
                        isMultiProviderConfigured(newConfig))
            /\ UNCHANGED <<aiVars, chatVars>>

\* data-table.tsx 449-466
setActiveModel(p, m) ==
    IF multiProviderConfig = Null THEN UNCHANGED vars
    ELSE LET newConfig == [multiProviderConfig EXCEPT !.activeModels[p] = m]
         IN /\ SetState(newConfig, deriveLegacyConfig(newConfig),
                        isMultiProviderConfigured(newConfig))
            /\ UNCHANGED <<aiVars, chatVars>>

\* data-table.tsx 468-481: the main process answers with a config (success and
\* data), or the call fails or carries no data and the store stays as it is.
loadConfigFromMain(ok, data) ==
    IF ok /\ data # Null
    THEN /\ SetState(data, deriveLegacyConfig(data), isMultiProviderConfigured(data))
         /\ UNCHANGED <<aiVars, chatVars>>
    ELSE UNCHANGED vars

\* data-table.tsx 352-362 and 553-560: the window is reloaded; the store is
\* created with its initial state and the persist middleware merges the two
\* persisted fields into it. config is not persisted and starts as null.
Rehydrate ==
    /\ multiProviderConfig' = storage.multiProviderConfig
    /\ isConfigured' = storage.isConfigured
    /\ config' = Null
    /\ UNCHANGED <<storage, aiVars, chatVars>>

\* ------------------------------------- main process: generateChatResponse

\* The provider ids getModel has a case for (ai-service.ts 123-163).
KnownProviders == {"openai", "anthropic", "google", "groq", "ollama"}

\* The provider ids passed in config.provider: the registered ones and one that
\* is not registered.
ProviderInputs == KnownProviders \cup {"mistral"}

\* ai-service.ts 122-168: TRUE when getModel returns a model, FALSE when it throws.
getModel(provider) == provider \in KnownProviders

\* The conversations passed as messages: lists of role/content pairs.
ConversationInputs ==
    { <<>>,
      <<[role |-> "user", content |-> "how many users?"]>>,
      <<[role |-> "user", content |-> "hi"],
        [role |-> "assistant", content |-> "hello"],
        [role |-> "user", content |-> "how many users?"]>> }

\* ai-service.ts 38-66: the twelve .nullish() fields of responseSchema, in order.
OptionalFields ==
    <<"sql", "explanation", "warning", "requiresConfirmation", "title", "description",
      "chartType", "xKey", "yKeys", "label", "format", "tables">>

OptionalFieldSet == {OptionalFields[i] : i \in 1..Len(OptionalFields)}

AllFields == {"type", "message"} \cup OptionalFieldSet

\* ai-service.ts 39
Kinds == {"query", "chart", "metric", "schema", "message"}

\* One value of the field's type for each optional field. requiresConfirmation
\* is given as false: a defined value that is falsy.
SampleValue(f) ==
    CASE f = "sql" -> "SELECT 1"
      [] f = "explanation" -> "explains"
      [] f = "warning" -> "warns"
      [] f = "requiresConfirmation" -> "false"
      [] f = "title" -> "Title"
      [] f = "description" -> "describes"
      [] f = "chartType" -> "bar"
      [] f = "xKey" -> "x"
      [] f = "yKeys" -> "[y]"
      [] f = "label" -> "Label"
      [] f = "format" -> "number"
      [] f = "tables" -> "[users]"

\* At most this many fields of a raw object are an explicit null; any number of
\* fields is omitted or carries a value.
MaxExplicitNull == 2

\* What the slot of field f holds when the fields in nulls are explicit nulls.
RawSlot(f, nulls) == IF f \in nulls THEN {NullV} ELSE {Undefined, SampleValue(f)}

\* The objects that parse under responseSchema in which exactly the fields in
\* nulls are null.
RawObjectsWithNulls(nulls) ==
    [type : Kinds, message : {"Here you go"},
     sql : RawSlot("sql", nulls), explanation : RawSlot("explanation", nulls),
     warning : RawSlot("warning", nulls),
     requiresConfirmation : RawSlot("requiresConfirmation", nulls),
     title : RawSlot("title", nulls), description : RawSlot("description", nulls),
     chartType : RawSlot("chartType", nulls), xKey : RawSlot("xKey", nulls),
     yKeys : RawSlot("yKeys", nulls), label : RawSlot("label", nulls),
     format : RawSlot("format", nulls), tables : RawSlot("tables", nulls)]

\* ai-service.ts 38-66: the objects generateObject can resolve to.
RawObjects ==
    UNION { RawObjectsWithNulls(nulls) :
              nulls \in {S \in SUBSET OptionalFieldSet : Cardinality(S) <= MaxExplicitNull} }

\* The error messages a rejected generateObject call carries.
CallErrors == {"401 Unauthorized", "429 Too Many Requests", "No object generated"}

NoObject == [none |-> TRUE]
NoReturn == [pending |-> TRUE]

\* x ?? null
Coalesce(x) == IF x \in {Undefined, NullV} THEN NullV ELSE x

\* normalizedData written with || in place of ??: a falsy value becomes null.
normalizedData_OrNull(obj) ==
    [f \in DOMAIN obj |->
        IF f \in OptionalFieldSet
        THEN (IF obj[f] \in {Undefined, NullV, "false", ""} THEN NullV ELSE obj[f])
        ELSE obj[f]]

\* ai-service.ts 318-332: the spread of result.object, then each optional field
\* with ?? null.
normalizedData(obj) ==
    [f \in DOMAIN obj |-> IF f \in OptionalFieldSet THEN Coalesce(obj[f]) ELSE obj[f]]

Failure(msg) == [success |-> FALSE, data |-> NoObject, error |-> msg]

\* ai-service.ts 294-315: up to the await of generateObject. getModel throws on
\* an unregistered provider and lastUserMessage.content throws on an empty
\* conversation; both land in the catch block (338-343).
GenerateStart(provider, messages) ==
    /\ aiPhase = "idle"
    /\ IF ~getModel(provider)
       THEN /\ aiPhase' = "returned"
            /\ aiReturn' = Failure("Unknown provider")
            /\ UNCHANGED aiCalls
       ELSE IF Len(messages) = 0
       THEN /\ aiPhase' = "returned"
            /\ aiReturn' = Failure("Cannot read properties of undefined")
            /\ UNCHANGED aiCalls
       ELSE /\ aiPhase' = "awaiting"
            /\ aiCalls' = aiCalls + 1
            /\ UNCHANGED aiReturn
    /\ UNCHANGED <<aiRaw, valVars, callVars, cfgVars, chatVars>>

\* ai-service.ts 309-337: generateObject resolves with an object; it is
\* normalized and returned.
GenerateResolve ==
    /\ aiPhase = "awaiting"
    /\ \E obj \in RawObjects :
           /\ aiRaw' = obj
           /\ aiReturn' = [success |-> TRUE, data |-> normalizedData(obj),
                           error |-> Undefined]
    /\ aiPhase' = "returned"
    /\ UNCHANGED <<aiCalls, valVars, callVars, cfgVars, chatVars>>

\* What a rejected generateObject call throws: an Error with one of the messages,
\* an Error whose enumerable properties hold a cycle, and a value that is not an
\* Error.
GenerateThrown ==
    { [isError |-> TRUE, message |-> m, cyclic |-> FALSE] : m \in CallErrors }
    \cup { [isError |-> TRUE, message |-> "fetch failed", cyclic |-> TRUE],
           [isError |-> FALSE, message |-> Undefined, cyclic |-> FALSE] }

\* The promise of generateChatResponse rejects with an error of this message.
Rejection(msg) == [rejected |-> msg]

\* ai-service.ts 338-343: the catch block. JSON.stringify(error) throws a
\* TypeError on a cycle, before the return is reached.
generateCatch(thrown) ==
    IF thrown.cyclic THEN Rejection("Converting circular structure to JSON")
    ELSE Failure(IF thrown.isError THEN thrown.message ELSE "Unknown error")

\* GenerateReject calling generateObject a second time after the first failure.
GenerateReject_Retries ==
    /\ aiPhase = "awaiting"
    /\ IF aiCalls < 2
       THEN /\ aiCalls' = aiCalls + 1
            /\ UNCHANGED <<aiPhase, aiReturn>>
       ELSE /\ \E thrown \in GenerateThrown :
                   /\ aiReturn' = generateCatch(thrown)
                   /\ aiPhase' = IF "rejected" \in DOMAIN generateCatch(thrown)
                                 THEN "rejected" ELSE "returned"
            /\ UNCHANGED aiCalls
    /\ UNCHANGED <<aiRaw, valVars, callVars, cfgVars, chatVars>>

\* ai-service.ts 309-343: generateObject rejects; the catch block settles the call.
GenerateReject ==
    /\ aiPhase = "awaiting"
    /\ \E thrown \in GenerateThrown :
           /\ aiReturn' = generateCatch(thrown)
           /\ aiPhase' = IF "rejected" \in DOMAIN generateCatch(thrown)
                         THEN "rejected" ELSE "returned"
    /\ UNCHANGED <<aiRaw, aiCalls, valVars, callVars, cfgVars, chatVars>>

\* ----------------------------------------- main process: validateAPIKey

\* A text that is searched with includes is the sequence of its words.
includes(message, word) == \E i \in 1..Len(message) : message[i] = word

\* new Error(message)
ErrorOf(message) == [isError |-> TRUE, message |-> message]

\* ai-service.ts 166: the error getModel throws.
UnknownProviderError(provider) == ErrorOf(<<"Unknown", "provider:", provider>>)

\* What a rejected generateText call throws: errors with a message, one with an
\* empty message, and values that are not an Error.
ThrownInputs ==
    { ErrorOf(<<"401", "Unauthorized">>),
      ErrorOf(<<"Unauthorized">>),
      ErrorOf(<<"403", "Forbidden">>),
      ErrorOf(<<"Forbidden", "429">>),
      ErrorOf(<<"429", "Too", "Many", "Requests">>),
      ErrorOf(<<"connect", "ECONNREFUSED">>),
      ErrorOf(<<"getaddrinfo", "ENOTFOUND", "401">>),
      ErrorOf(<<"model", "not", "found">>),
      ErrorOf(<<>>),
      [isError |-> FALSE, message |-> <<"401">>],
      [isError |-> FALSE, message |-> <<>>] }

\* getModel and generateText were not reached, or generateText resolved.
NotCalled == [called |-> FALSE]
Resolved == [called |-> TRUE]

\* validateAPIKey is called at most MaxValidations times.
MaxValidations == 2

\* { valid: true }
Valid == [valid |-> TRUE, error |-> Undefined]

\* { valid: false, error }
Invalid(error) == [valid |-> FALSE, error |-> error]

\* The promise rejects with the value thrown.
Throws(thrown) == [rejected |-> thrown]

\* validateCatch throwing again what it does not recognise.
validateCatch_Rethrows(thrown) ==
    LET message == IF thrown.isError THEN thrown.message ELSE <<"Unknown", "error">>
    IN IF includes(message, "401") \/ includes(message, "Unauthorized")
       THEN Invalid(<<"Invalid", "API", "key">>)
       ELSE IF includes(message, "403") \/ includes(message, "Forbidden")
       THEN Invalid(<<"API", "key", "does", "not", "have", "required", "permissions">>)
       ELSE IF includes(message, "429")
       THEN Invalid(<<"Rate", "limit", "exceeded.", "Please", "try", "again", "later.">>)
       ELSE IF includes(message, "ECONNREFUSED") \/ includes(message, "ENOTFOUND")
       THEN Invalid(<<"Could", "not", "connect", "to", "AI", "provider.", "Check", "your",
                      "network.">>)
       ELSE Throws(thrown)

\* validateCatch testing for the rate limit before the forbidden signatures.
validateCatch_RateLimitFirst(thrown) ==
    LET message == IF thrown.isError THEN thrown.message ELSE <<"Unknown", "error">>
    IN IF includes(message, "401") \/ includes(message, "Unauthorized")
       THEN Invalid(<<"Invalid", "API", "key">>)
       ELSE IF includes(message, "429")
       THEN Invalid(<<"Rate", "limit", "exceeded.", "Please", "try", "again", "later.">>)
       ELSE IF includes(message, "403") \/ includes(message, "Forbidden")
       THEN Invalid(<<"API", "key", "does", "not", "have", "required", "permissions">>)
       ELSE IF includes(message, "ECONNREFUSED") \/ includes(message, "ENOTFOUND")
       THEN Invalid(<<"Could", "not", "connect", "to", "AI", "provider.", "Check", "your",
                      "network.">>)
       ELSE Invalid(message)

\* ai-service.ts 260-278: the catch block.
validateCatch(thrown) ==
    LET message == IF thrown.isError THEN thrown.message ELSE <<"Unknown", "error">>
    IN IF includes(message, "401") \/ includes(message, "Unauthorized")
       THEN Invalid(<<"Invalid", "API", "key">>)
       ELSE IF includes(message, "403") \/ includes(message, "Forbidden")
       THEN Invalid(<<"API", "key", "does", "not", "have", "required", "permissions">>)
       ELSE IF includes(message, "429")
       THEN Invalid(<<"Rate", "limit", "exceeded.", "Please", "try", "again", "later.">>)
       ELSE IF includes(message, "ECONNREFUSED") \/ includes(message, "ENOTFOUND")
       THEN Invalid(<<"Could", "not", "connect", "to", "AI", "provider.", "Check", "your",
                      "network.">>)
       ELSE Invalid(message)

\* ai-service.ts 249-250: getModel is called inside the try block; when it
\* throws, the catch block settles the call. Otherwise generateText is awaited.
ValidateStart(provider) ==
    /\ valPhase # "awaiting"
    /\ valCalls < MaxValidations
    /\ valCalls' = valCalls + 1
    /\ valProvider' = provider
    /\ IF ~getModel(provider)
       THEN /\ valPhase' = "returned"
            /\ valOutcome' = UnknownProviderError(provider)
            /\ valReturn' = validateCatch(UnknownProviderError(provider))
       ELSE /\ valPhase' = "awaiting"
            /\ valOutcome' = NotCalled
            /\ valReturn' = NoReturn
    /\ UNCHANGED <<aiPhase, aiCalls, aiRaw, aiReturn, callVars,
                 cfgVars, chatVars>>

\* ai-service.ts 253-259: generateText resolves.
ValidateResolve ==
    /\ valPhase = "awaiting"
    /\ valPhase' = "returned"
    /\ valOutcome' = Resolved
    /\ valReturn' = Valid
    /\ UNCHANGED <<valCalls, valProvider, aiPhase, aiCalls, aiRaw, aiReturn, callVars,
                 cfgVars, chatVars>>

\* ai-service.ts 253-278: generateText rejects; the catch block settles the call.
ValidateReject ==
    /\ valPhase = "awaiting"
    /\ \E thrown \in ThrownInputs :
           /\ valOutcome' = thrown
           /\ valReturn' = validateCatch(thrown)
    /\ valPhase' = "returned"
    /\ UNCHANGED <<valCalls, valProvider, aiPhase, aiCalls, aiRaw, aiReturn, callVars,
                 cfgVars, chatVars>>

\* --------------------------------------- main process: chat session store

\* JavaScript strings that are measured and cut are sequences of characters.
NewChat == <<"N", "e", "w", " ", "C", "h", "a", "t">>

Ellipsis == <<".", ".", ".">>

\* ai-service.ts 354: the title keeps at most this many characters.
TitleLimit == 40

\* A message without createdAt carries this (falsy) value.
NoTimestamp == 0

Rep(ch, n) == [i \in 1..n |-> ch]

Min(a, b) == IF a < b THEN a ELSE b

RECURSIVE TrimStart(_)
TrimStart(s) == IF s # <<>> /\ Head(s) = " " THEN TrimStart(Tail(s)) ELSE s

RECURSIVE TrimEnd(_)
TrimEnd(s) == IF s # <<>> /\ s[Len(s)] = " " THEN TrimEnd(SubSeq(s, 1, Len(s) - 1)) ELSE s

\* String.prototype.trim
trim(s) == TrimEnd(TrimStart(s))

\* String.prototype.substring(0, n)
substring(s, n) == SubSeq(s, 1, Min(n, Len(s)))

\* generateSessionTitle without the trim of the content.
generateSessionTitle_NoTrim(messages) ==
    IF \A i \in 1..Len(messages) : messages[i].role # "user" THEN NewChat
    ELSE LET first == CHOOSE i \in 1..Len(messages) :
                          /\ messages[i].role = "user"
                          /\ \A j \in 1..(i - 1) : messages[j].role # "user"
             content == messages[first].content
         IN IF Len(content) > TitleLimit
            THEN substring(content, TitleLimit) \o Ellipsis
            ELSE content

\* ai-service.ts 349-355
generateSessionTitle(messages) ==
    IF \A i \in 1..Len(messages) : messages[i].role # "user" THEN NewChat
    ELSE LET first == CHOOSE i \in 1..Len(messages) :
                          /\ messages[i].role = "user"
                          /\ \A j \in 1..(i - 1) : messages[j].role # "user"
             content == trim(messages[first].content)
         IN IF Len(content) > TitleLimit
            THEN substring(content, TitleLimit) \o Ellipsis
            ELSE content

\* The stored chat messages the model uses.
MsgHi == [id |-> "m1", role |-> "user", content |-> <<"h", "i">>, createdAt |-> 1]
MsgHello ==
    [id |-> "m2", role |-> "assistant", content |-> <<"h", "e", "l", "l", "o">>, createdAt |-> 2]
\* "show me all users from last week please"
MsgShow ==
    [id |-> "m3", role |-> "user", createdAt |-> NoTimestamp,
     content |-> <<"s", "h", "o", "w", " ", "m", "e", " ", "a", "l", "l", " ", "u", "s", "e", "r", "s", " ", "f", "r", "o", "m", " ", "l", "a", "s", "t", " ", "w", "e", "e", "k", " ", "p", "l", "e", "a", "s", "e">>]
\* A space, then TitleLimit characters.
MsgPadded ==
    [id |-> "m4", role |-> "user", createdAt |-> NoTimestamp,
     content |-> <<" ">> \o Rep("x", TitleLimit)]
\* TitleLimit + 1 characters.
MsgLong ==
    [id |-> "m5", role |-> "user", createdAt |-> NoTimestamp,
     content |-> Rep("y", TitleLimit + 1)]

\* Two spaces.
MsgBlank == [id |-> "m6", role |-> "user", createdAt |-> NoTimestamp, content |-> <<" ", " ">>]

\* The message lists passed to updateChatSession.
MsgListInputs ==
    { <<>>, <<MsgHello>>, <<MsgHi>>, <<MsgShow>>, <<MsgShow, MsgHello>>,
      <<MsgHello, MsgPadded>>, <<MsgLong>>, <<MsgBlank>> }

\* The flat message lists a store written before the session model holds.
LegacyInputs == { <<MsgHi, MsgHello>>, <<MsgHello, MsgHi>>, <<MsgShow>>, <<MsgHello>> }

\* The titles passed explicitly.
TitleInputs == { NewChat, <<"Q", "3">> }

ConnIds == {"c1", "c2"}

\* crypto.randomUUID() is called at most MaxIds times.
MaxIds == 2

\* The clock stops at MaxClock.
MaxClock == 4

EmptyHistory == [c \in {} |-> <<>>]

\* history[c] = v
PutConn(h, c, v) == [d \in DOMAIN h \cup {c} |-> IF d = c THEN v ELSE h[d]]

\* delete history[c]
DeleteConn(h, c) == [d \in DOMAIN h \ {c} |-> h[d]]

\* ai-service.ts 360-367
isLegacyFormat(data) ==
    IF Len(data) = 0 THEN FALSE
    ELSE "role" \in DOMAIN data[1] /\ "messages" \notin DOMAIN data[1]

\* migrateLegacyToSessions taking updatedAt from the first message.
migrateLegacyToSessions_FirstStamp(messages, t, id) ==
    IF Len(messages) = 0 THEN <<>>
    ELSE << [id |-> id,
             title |-> generateSessionTitle(messages),
             messages |-> messages,
             createdAt |-> IF messages[1].createdAt # NoTimestamp
                           THEN messages[1].createdAt ELSE t,
             updatedAt |-> IF messages[1].createdAt # NoTimestamp
                           THEN messages[1].createdAt ELSE t] >>

\* ai-service.ts 372-384: t is new Date(), id is crypto.randomUUID().
migrateLegacyToSessions(messages, t, id) ==
    IF Len(messages) = 0 THEN <<>>
    ELSE << [id |-> id,
             title |-> generateSessionTitle(messages),
             messages |-> messages,
             createdAt |-> IF messages[1].createdAt # NoTimestamp
                           THEN messages[1].createdAt ELSE t,
             updatedAt |-> IF messages[Len(messages)].createdAt # NoTimestamp
                           THEN messages[Len(messages)].createdAt ELSE t] >>

\* getChatSessions writing back the data it read in place of the migrated list.
getChatSessions_SavesData(ready, h, c, t, id) ==
    IF ~ready THEN [sessions |-> <<>>, history |-> h, wrote |-> FALSE]
    ELSE IF c \notin DOMAIN h THEN [sessions |-> <<>>, history |-> h, wrote |-> FALSE]
    ELSE IF isLegacyFormat(h[c])
    THEN [sessions |-> migrateLegacyToSessions(h[c], t, id),
          history |-> PutConn(h, c, h[c]), wrote |-> TRUE]
    ELSE [sessions |-> h[c], history |-> h, wrote |-> FALSE]

\* ai-service.ts 389-406: the list returned, the chat history the store holds
\* afterwards, and whether chatStore.set was called.
getChatSessions(ready, h, c, t, id) ==
    IF ~ready THEN [sessions |-> <<>>, history |-> h, wrote |-> FALSE]
    ELSE IF c \notin DOMAIN h THEN [sessions |-> <<>>, history |-> h, wrote |-> FALSE]
    ELSE IF isLegacyFormat(h[c])
    THEN LET sessions == migrateLegacyToSessions(h[c], t, id)
         IN [sessions |-> sessions, history |-> PutConn(h, c, sessions), wrote |-> TRUE]
    ELSE [sessions |-> h[c], history |-> h, wrote |-> FALSE]

\* sessions.findIndex((s) => s.id === sessionId): 0 when there is none.
findIndex(sessions, sid) ==
    IF \E i \in 1..Len(sessions) : sessions[i].id = sid
    THEN CHOOSE i \in 1..Len(sessions) :
             /\ sessions[i].id = sid
             /\ \A j \in 1..(i - 1) : sessions[j].id # sid
    ELSE 0

\* ai-service.ts 411-414: the session found as a one-element list, the empty
\* list for null.
getChatSession(ready, h, c, sid, t, id) ==
    LET r == getChatSessions(ready, h, c, t, id)
        i == findIndex(r.sessions, sid)
    IN [r EXCEPT !.sessions = IF i = 0 THEN <<>> ELSE <<r.sessions[i]>>]

\* The value a call returns and what it did to the store: the sessions returned
\* (a session or null is a list of one or none), the chat history afterwards,
\* whether chatStore.set was called, and whether legacy data was migrated.
Outcome(sessions, h, wrote, migrated) ==
    [sessions |-> sessions, history |-> h, wrote |-> wrote, migrated |-> migrated]

\* ai-service.ts 419-438: title is the empty string when none (or '') is passed;
\* id and mid are the ids drawn for the new session and for a migration. The
\* call reads the clock twice: t is new Date() at line 420, for the new session,
\* and tm is the later new Date() of the migration that getChatSessions makes at
\* line 433 when the connection holds a legacy list.
createChatSession(ready, h, c, title, t, tm, id, mid) ==
    LET session == [id |-> id,
                    title |-> IF title # <<>> THEN title ELSE NewChat,
                    messages |-> <<>>,
                    createdAt |-> t,
                    updatedAt |-> t]
    IN IF ~ready THEN Outcome(<<session>>, h, FALSE, FALSE)
       ELSE LET r == getChatSessions(ready, h, c, tm, mid)
                sessions == <<session>> \o r.sessions
            IN Outcome(<<session>>, PutConn(r.history, c, sessions), TRUE, r.wrote)

\* updateChatSession storing a session under an id it did not find.
updateChatSession_Upserts(ready, h, c, sid, u, t, tu, mid) ==
    IF ~ready THEN Outcome(<<>>, h, FALSE, FALSE)
    ELSE LET r == getChatSessions(ready, h, c, t, mid)
             index == findIndex(r.sessions, sid)
             s0 == IF index = 0
                   THEN [id |-> sid, title |-> NewChat, messages |-> <<>>,
                         createdAt |-> t, updatedAt |-> t]
                   ELSE r.sessions[index]
             s1 == IF u.hasMessages
                   THEN [s0 EXCEPT
                           !.messages = u.messages,
                           !.title = IF s0.title = NewChat /\ Len(u.messages) > 0
                                     THEN generateSessionTitle(u.messages)
                                     ELSE s0.title]
                   ELSE s0
             s2 == IF u.hasTitle THEN [s1 EXCEPT !.title = u.title] ELSE s1
             session == [s2 EXCEPT !.updatedAt = IF r.wrote THEN tu ELSE t]
             sessions == IF index = 0 THEN <<session>> \o r.sessions
                         ELSE [r.sessions EXCEPT ![index] = session]
         IN Outcome(<<session>>, PutConn(r.history, c, sessions), TRUE, r.wrote)

\* updateChatSession putting the updated session at the front and leaving the
\* old one in its place.
updateChatSession_Unshift(ready, h, c, sid, u, t, tu, mid) ==
    IF ~ready THEN Outcome(<<>>, h, FALSE, FALSE)
    ELSE LET r == getChatSessions(ready, h, c, t, mid)
             index == findIndex(r.sessions, sid)
         IN IF index = 0 THEN Outcome(<<>>, r.history, r.wrote, r.wrote)
            ELSE LET s0 == r.sessions[index]
                     s1 == IF u.hasMessages
                           THEN [s0 EXCEPT
                                   !.messages = u.messages,
                                   !.title = IF s0.title = NewChat /\ Len(u.messages) > 0
                                             THEN generateSessionTitle(u.messages)
                                             ELSE s0.title]
                           ELSE s0
                     s2 == IF u.hasTitle THEN [s1 EXCEPT !.title = u.title] ELSE s1
                     session == [s2 EXCEPT !.updatedAt = IF r.wrote THEN tu ELSE t]
                     sessions == <<session>> \o r.sessions
                 IN Outcome(<<session>>, PutConn(r.history, c, sessions), TRUE, r.wrote)

\* updateChatSession storing the messages only when the list is non-empty.
updateChatSession_NonEmptyOnly(ready, h, c, sid, u, t, tu, mid) ==
    IF ~ready THEN Outcome(<<>>, h, FALSE, FALSE)
    ELSE LET r == getChatSessions(ready, h, c, t, mid)
             index == findIndex(r.sessions, sid)
         IN IF index = 0 THEN Outcome(<<>>, r.history, r.wrote, r.wrote)
            ELSE LET s0 == r.sessions[index]
                     s1 == IF u.hasMessages /\ Len(u.messages) > 0
                           THEN [s0 EXCEPT
                                   !.messages = u.messages,
                                   !.title = IF s0.title = NewChat
                                             THEN generateSessionTitle(u.messages)
                                             ELSE s0.title]
                           ELSE s0
                     s2 == IF u.hasTitle THEN [s1 EXCEPT !.title = u.title] ELSE s1
                     session == [s2 EXCEPT !.updatedAt = IF r.wrote THEN tu ELSE t]
                     sessions == [r.sessions EXCEPT ![index] = session]
                 IN Outcome(<<session>>, PutConn(r.history, c, sessions), TRUE, r.wrote)

\* updateChatSession deriving the title whatever the stored title is.
updateChatSession_AlwaysDerives(ready, h, c, sid, u, t, tu, mid) ==
    IF ~ready THEN Outcome(<<>>, h, FALSE, FALSE)
    ELSE LET r == getChatSessions(ready, h, c, t, mid)
             index == findIndex(r.sessions, sid)
         IN IF index = 0 THEN Outcome(<<>>, r.history, r.wrote, r.wrote)
            ELSE LET s0 == r.sessions[index]
                     s1 == IF u.hasMessages
                           THEN [s0 EXCEPT
                                   !.messages = u.messages,
                                   !.title = IF Len(u.messages) > 0
                                             THEN generateSessionTitle(u.messages)
                                             ELSE s0.title]
                           ELSE s0
                     s2 == IF u.hasTitle THEN [s1 EXCEPT !.title = u.title] ELSE s1
                     session == [s2 EXCEPT !.updatedAt = IF r.wrote THEN tu ELSE t]
                     sessions == [r.sessions EXCEPT ![index] = session]
                 IN Outcome(<<session>>, PutConn(r.history, c, sessions), TRUE, r.wrote)

\* updateChatSession adding the messages passed to those the session holds.
updateChatSession_Merges(ready, h, c, sid, u, t, tu, mid) ==
    IF ~ready THEN Outcome(<<>>, h, FALSE, FALSE)
    ELSE LET r == getChatSessions(ready, h, c, t, mid)
             index == findIndex(r.sessions, sid)
         IN IF index = 0 THEN Outcome(<<>>, r.history, r.wrote, r.wrote)
            ELSE LET s0 == r.sessions[index]
                     s1 == IF u.hasMessages
                           THEN [s0 EXCEPT
                                   !.messages = s0.messages \o u.messages,
                                   !.title = IF s0.title = NewChat /\ Len(u.messages) > 0
                                             THEN generateSessionTitle(u.messages)
                                             ELSE s0.title]
                           ELSE s0
                     s2 == IF u.hasTitle THEN [s1 EXCEPT !.title = u.title] ELSE s1
                     session == [s2 EXCEPT !.updatedAt = IF r.wrote THEN tu ELSE t]
                     sessions == [r.sessions EXCEPT ![index] = session]
                 IN Outcome(<<session>>, PutConn(r.history, c, sessions), TRUE, r.wrote)

\* ai-service.ts 443-477: t is the first new Date() of the call. On a legacy
\* list that is the one of the migration (line 375), and the new Date() of line
\* 457, read when the id passed is the one the migration drew, is the later tu;
\* otherwise the read of line 457 is the only one.
updateChatSession(ready, h, c, sid, u, t, tu, mid) ==
    IF ~ready THEN Outcome(<<>>, h, FALSE, FALSE)
    ELSE LET r == getChatSessions(ready, h, c, t, mid)
             index == findIndex(r.sessions, sid)
         IN IF index = 0 THEN Outcome(<<>>, r.history, r.wrote, r.wrote)
            ELSE LET s0 == r.sessions[index]
                     s1 == IF u.hasMessages
                           THEN [s0 EXCEPT
                                   !.messages = u.messages,
                                   !.title = IF s0.title = NewChat /\ Len(u.messages) > 0
                                             THEN generateSessionTitle(u.messages)
                                             ELSE s0.title]
                           ELSE s0
                     s2 == IF u.hasTitle THEN [s1 EXCEPT !.title = u.title] ELSE s1
                     session == [s2 EXCEPT !.updatedAt = IF r.wrote THEN tu ELSE t]
                     sessions == [r.sessions EXCEPT ![index] = session]
                 IN Outcome(<<session>>, PutConn(r.history, c, sessions), TRUE, r.wrote)

\* deleteChatSession removing the front session when it finds the id.
deleteChatSession_Shift(ready, h, c, sid, t, mid) ==
    IF ~ready THEN [ok |-> FALSE, history |-> h, wrote |-> FALSE, migrated |-> FALSE]
    ELSE LET r == getChatSessions(ready, h, c, t, mid)
             filtered == SelectSeq(r.sessions, LAMBDA s : s.id # sid)
         IN IF Len(filtered) = Len(r.sessions)
            THEN [ok |-> FALSE, history |-> r.history, wrote |-> r.wrote, migrated |-> r.wrote]
            ELSE [ok |-> TRUE, history |-> PutConn(r.history, c, Tail(r.sessions)),
                  wrote |-> TRUE, migrated |-> r.wrote]

\* ai-service.ts 482-494: ok is the boolean returned.
deleteChatSession(ready, h, c, sid, t, mid) ==
    IF ~ready THEN [ok |-> FALSE, history |-> h, wrote |-> FALSE, migrated |-> FALSE]
    ELSE LET r == getChatSessions(ready, h, c, t, mid)
             filtered == SelectSeq(r.sessions, LAMBDA s : s.id # sid)
         IN IF Len(filtered) = Len(r.sessions)
            THEN [ok |-> FALSE, history |-> r.history, wrote |-> r.wrote, migrated |-> r.wrote]
            ELSE [ok |-> TRUE, history |-> PutConn(r.history, c, filtered),
                  wrote |-> TRUE, migrated |-> r.wrote]

\* clearChatSessions emptying the whole chat history.
clearChatSessions_All(ready, h, c) == IF ~ready THEN h ELSE EmptyHistory

\* ai-service.ts 499-504
clearChatSessions(ready, h, c) == IF ~ready THEN h ELSE DeleteConn(h, c)

\* ai-service.ts 509-512
clearAllChatHistory(ready, h) == IF ~ready THEN h ELSE EmptyHistory

\* ai-service.ts 519-524: the messages returned, with what the read did to the
\* store.
getChatHistory(ready, h, c, t, id) ==
    LET r == getChatSessions(ready, h, c, t, id)
    IN [messages |-> IF Len(r.sessions) = 0 THEN <<>> ELSE r.sessions[1].messages,
        history |-> r.history, wrote |-> r.wrote]

\* ai-service.ts 530-540: id is the one id the call may draw (for a migration,
\* or for the session created when the connection has none); drew tells
\* whether it was drawn. Each function the call goes through reads the clock:
\* t is the first new Date() of the call (the migration at line 375, or
\* createChatSession at line 420 when the connection has no session) and tu is
\* the later one of updateChatSession at line 457; on a list of sessions the
\* read of updateChatSession is the only one.
saveChatHistory(ready, h, c, messages, t, tu, id) ==
    LET r == getChatSessions(ready, h, c, t, id)
        u == [hasMessages |-> TRUE, messages |-> messages, hasTitle |-> FALSE, title |-> <<>>]
    IN IF Len(r.sessions) = 0
       THEN LET created == createChatSession(ready, r.history, c, <<>>, t, t, id, id + 1)
                updated == updateChatSession(ready, created.history, c,
                                             created.sessions[1].id, u, tu, tu, id + 1)
            IN [history |-> updated.history, drew |-> TRUE]
       ELSE LET at == IF r.wrote THEN tu ELSE t
                updated == updateChatSession(ready, r.history, c, r.sessions[1].id, u,
                                             at, at, id + 1)
            IN [history |-> updated.history, drew |-> r.wrote]

\* getChatSessions(c) migrates: the store is there and holds a legacy list for
\* c. createChatSession (ai-service.ts 420, 433) reads the clock a second time
\* when its getChatSessions call migrates.
Migrates(ready, h, c) == ready /\ c \in DOMAIN h /\ isLegacyFormat(h[c])

\* ai-service.ts 531-539: saveChatHistory reads the clock a second time, in
\* updateChatSession, after a migration or after the createChatSession call it
\* makes for a connection without sessions.
saveReadsTwice(ready, h, c) ==
    ready /\ (c \notin DOMAIN h \/ Len(h[c]) = 0 \/ isLegacyFormat(h[c]))

\* The values of the later new Date() of a call that read t first: any time
\* from t on when the call reads the clock twice.
LaterReads(t, twice) == IF twice THEN t..MaxClock ELSE {t}

\* The arguments of updateChatSession: messages and title, each given or not.
\* lists are passed alone, titles are passed alone, both are passed together,
\* and one call passes neither.
Updates(lists, titles, both) ==
    [hasMessages : {TRUE}, messages : lists, hasTitle : {FALSE}, title : {<<>>}]
    \cup [hasMessages : {FALSE}, messages : {<<>>}, hasTitle : {TRUE}, title : titles]
    \cup [hasMessages : {TRUE}, messages : both, hasTitle : {TRUE}, title : titles]
    \cup [hasMessages : {FALSE}, messages : {<<>>}, hasTitle : {FALSE}, title : {<<>>}]

SessionIds == 1..MaxIds

\* A migration draws one more id.
Drawn(n, migrated) == IF migrated THEN n + 1 ELSE n

GetChatSessions(c) ==
    LET r == getChatSessions(chatStoreReady, chatHistory, c, now, nextId + 1)
    IN /\ Drawn(nextId, r.wrote) <= MaxIds
       /\ chatHistory' = r.history
       /\ nextId' = Drawn(nextId, r.wrote)
       /\ UNCHANGED <<chatStoreReady, now, cfgVars, aiVars>>

GetChatSession(c, sid) ==
    LET r == getChatSession(chatStoreReady, chatHistory, c, sid, now, nextId + 1)
    IN /\ Drawn(nextId, r.wrote) <= MaxIds
       /\ chatHistory' = r.history
       /\ nextId' = Drawn(nextId, r.wrote)
       /\ UNCHANGED <<chatStoreReady, now, cfgVars, aiVars>>

\* createChatSession with the clock at tm at its second read.
CreateAt(c, title, tm) ==
    LET r == createChatSession(chatStoreReady, chatHistory, c, title, now, tm,
                               nextId + 1, nextId + 2)
    IN /\ Drawn(nextId + 1, r.migrated) <= MaxIds
       /\ chatHistory' = r.history
       /\ nextId' = Drawn(nextId + 1, r.migrated)
       /\ now' = tm
       /\ UNCHANGED <<chatStoreReady, cfgVars, aiVars>>

CreateChatSession(c, title) ==
    \E tm \in LaterReads(now, Migrates(chatStoreReady, chatHistory, c)) :
       CreateAt(c, title, tm)

UpdateChatSession(c, sid, u) ==
    \E tu \in LaterReads(now, Migrates(chatStoreReady, chatHistory, c) /\ sid = nextId + 1) :
       LET r == updateChatSession(chatStoreReady, chatHistory, c, sid, u, now, tu,
                                  nextId + 1)
       IN /\ Drawn(nextId, r.migrated) <= MaxIds
          /\ chatHistory' = r.history
          /\ nextId' = Drawn(nextId, r.migrated)
          /\ now' = tu
          /\ UNCHANGED <<chatStoreReady, cfgVars, aiVars>>

DeleteChatSession(c, sid) ==
    LET r == deleteChatSession(chatStoreReady, chatHistory, c, sid, now, nextId + 1)
    IN /\ Drawn(nextId, r.migrated) <= MaxIds
       /\ chatHistory' = r.history
       /\ nextId' = Drawn(nextId, r.migrated)
       /\ UNCHANGED <<chatStoreReady, now, cfgVars, aiVars>>

ClearChatSessions(c) ==
    /\ chatHistory' = clearChatSessions(chatStoreReady, chatHistory, c)
    /\ UNCHANGED <<chatStoreReady, now, nextId, cfgVars, aiVars>>

ClearAllChatHistory ==
    /\ chatHistory' = clearAllChatHistory(chatStoreReady, chatHistory)
    /\ UNCHANGED <<chatStoreReady, now, nextId, cfgVars, aiVars>>

GetChatHistory(c) ==
    LET r == getChatHistory(chatStoreReady, chatHistory, c, now, nextId + 1)
    IN /\ Drawn(nextId, r.wrote) <= MaxIds
       /\ chatHistory' = r.history
       /\ nextId' = Drawn(nextId, r.wrote)
       /\ UNCHANGED <<chatStoreReady, now, cfgVars, aiVars>>

\* saveChatHistory with the clock at tu at its second read.
SaveAt(c, messages, tu) ==
    LET r == saveChatHistory(chatStoreReady, chatHistory, c, messages, now, tu, nextId + 1)
    IN /\ Drawn(nextId, r.drew) <= MaxIds
       /\ chatHistory' = r.history
       /\ nextId' = Drawn(nextId, r.drew)
       /\ now' = tu
       /\ UNCHANGED <<chatStoreReady, cfgVars, aiVars>>

SaveChatHistory(c, messages) ==
    \E tu \in LaterReads(now, saveReadsTwice(chatStoreReady, chatHistory, c)) :
       SaveAt(c, messages, tu)

\* --------------------------- main process: callers on the event loop

\* The asynchronous callers (IPC handlers, UI turns) that are in flight together.
Callers == {"t1", "t2"}

\* The connection the callers work on.
CallConn == "c1"

\* The calls of the four mutations.
NoCall == [kind |-> "none"]
CreateCall(title) == [kind |-> "create", title |-> title]
UpdateCall(sid, u) == [kind |-> "update", sid |-> sid, u |-> u]
DeleteCall(sid) == [kind |-> "delete", sid |-> sid]
ClearCall == [kind |-> "clear"]

\* A caller that is not in a call: its locals hold nothing.
IdleTurn ==
    [pc |-> "idle", call |-> NoCall, read |-> EmptyHistory, pending |-> EmptyHistory,
     turned |-> FALSE]

\* The message a caller's turn adds to the messages it read.
OwnMessage(k) == IF k = "t1" THEN MsgShow ELSE MsgLong

\* yields letting updateChatSession await between its read and its write.
yields_InUpdate(kind) == kind = "update"

\* ai-service.ts 419-504: the mutations are synchronous functions; none awaits
\* between chatStore.get and chatStore.set, so none yields the event loop.
yields(kind) == FALSE

\* What a mutation does with the chat history it reads: afterRead is the store
\* after its getChatSessions call (which writes a migrated list), final tells
\* whether it reaches its own chatStore.set, history is what that set writes
\* (the history read with the connection's list replaced), and drawn is the
\* number of ids it draws.
CallResult(afterRead, final, history, drawn) ==
    [afterRead |-> afterRead, final |-> final, history |-> history, drawn |-> drawn]

\* ai-service.ts 419-438, with the outcome r of the function and the read it made.
CreateResult(r, read) == CallResult(read.history, r.wrote, r.history, Drawn(1, r.migrated))

\* ai-service.ts 443-477
UpdateResult(r, read) ==
    CallResult(read.history, r.sessions # <<>>, r.history, Drawn(0, r.migrated))

\* ai-service.ts 482-494
DeleteResult(r, read) == CallResult(read.history, r.ok, r.history, Drawn(0, r.migrated))

Call(call, ready, h, t, tm, id) ==
    CASE call.kind = "create" ->
           CreateResult(createChatSession(ready, h, CallConn, call.title, t, tm, id, id + 1),
                        getChatSessions(ready, h, CallConn, tm, id + 1))
      [] call.kind = "update" ->
           UpdateResult(updateChatSession(ready, h, CallConn, call.sid, call.u, t, tm, id),
                        getChatSessions(ready, h, CallConn, t, id))
      [] call.kind = "delete" ->
           DeleteResult(deleteChatSession(ready, h, CallConn, call.sid, t, id),
                        getChatSessions(ready, h, CallConn, t, id))
      [] call.kind = "clear" ->
           CallResult(h, ready, clearChatSessions(ready, h, CallConn), 0)

\* The caller k runs the function of call up to its own chatStore.set, or to
\* its early return; r is what the function does with the history it reads.
Begin(k, call, r, tm) ==
    /\ running = "none"
    /\ now' = tm
    /\ nextId + r.drawn <= MaxIds
    /\ nextId' = nextId + r.drawn
    /\ chatHistory' = r.afterRead
    /\ IF r.final
       THEN /\ turns' = [turns EXCEPT ![k] = [@ EXCEPT !.pc = "writing", !.call = call,
                                                        !.read = chatHistory,
                                                        !.pending = r.history]]
            /\ running' = IF yields(call.kind) THEN "none" ELSE k
       ELSE /\ turns' = [turns EXCEPT ![k] = [@ EXCEPT !.pc = "idle", !.call = NoCall]]
            /\ running' = "none"
    /\ UNCHANGED <<chatStoreReady, cfgVars, aiPhase, aiCalls, aiRaw, aiReturn, valVars>>

\* The caller k enters a mutation; tm is the clock at the second read of a
\* createChatSession or updateChatSession call that migrates.
BeginCall(k, call, tm) ==
    Begin(k, call, Call(call, chatStoreReady, chatHistory, now, tm, nextId + 1), tm)

\* A caller that is not in a call calls one of the mutations.
StartCall(k, call) ==
    /\ turns[k].pc = "idle"
    /\ \E tm \in LaterReads(now, /\ Migrates(chatStoreReady, chatHistory, CallConn)
                                  /\ \/ call.kind = "create"
                                     \/ call.kind = "update" /\ call.sid = nextId + 1) :
          BeginCall(k, call, tm)

\* The mutation of caller k reaches its chatStore.set and returns.
FinishCall(k) ==
    /\ turns[k].pc = "writing"
    /\ running = IF yields(turns[k].call.kind) THEN "none" ELSE k
    /\ chatHistory' = turns[k].pending
    /\ turns' = [turns EXCEPT ![k] = [IdleTurn EXCEPT !.turned = turns[k].turned]]
    /\ running' = "none"
    /\ UNCHANGED <<chatStoreReady, now, nextId, cfgVars, aiPhase, aiCalls, aiRaw, aiReturn,
                   valVars>>

\* The caller k has read the sessions r of its turn (one session, or none for
\* null); with a session found it adds its own message to the messages read and
\* awaits generateChatResponse.
Turn(k, sid, r) ==
    /\ running = "none"
    /\ sid <= nextId
    /\ r # <<>>
    /\ turns' = [turns EXCEPT ![k] =
                    [@ EXCEPT !.pc = "awaiting", !.turned = TRUE,
                              !.call = UpdateCall(sid,
                                  [hasMessages |-> TRUE,
                                   messages |-> r[1].messages \o <<OwnMessage(k)>>,
                                   hasTitle |-> FALSE, title |-> <<>>])]]
    /\ UNCHANGED <<running, chatVars, cfgVars, aiPhase, aiCalls, aiRaw, aiReturn, valVars>>

\* A UI turn of caller k on the session sid: it reads the session's messages
\* with getChatSession.
StartTurn(k, sid) ==
    /\ turns[k].pc = "idle"
    /\ ~turns[k].turned
    /\ Turn(k, sid, getChatSession(chatStoreReady, chatHistory, CallConn, sid, now,
                                   nextId + 1).sessions)

\* The generateChatResponse call of caller k settles and the turn calls
\* updateChatSession with its own message list.
SettleTurn(k) ==
    /\ turns[k].pc = "awaiting"
    /\ BeginCall(k, turns[k].call, now)

\* ai-service.ts 87-92: the second DpStorage.create of initAIStore resolves and
\* chatStore is assigned. Until then every chat function sees chatStore = null.
InitAIStore ==
    /\ ~chatStoreReady
    /\ chatStoreReady' = TRUE
    /\ UNCHANGED <<chatHistory, now, nextId, cfgVars, aiVars>>

\* Time passes between two calls.
Tick ==
    /\ now < MaxClock
    /\ now' = now + 1
    /\ UNCHANGED <<chatStoreReady, chatHistory, nextId, cfgVars, aiVars>>

\* ------------------------------------------------------- specifications

CfgInit ==
    /\ multiProviderConfig = Null
    /\ config = Null
    /\ isConfigured = FALSE
    /\ storage = partialize(Null, FALSE)

AiInit ==
    /\ aiPhase = "idle"
    /\ aiCalls = 0
    /\ aiRaw = NoObject
    /\ aiReturn = NoReturn
    /\ valPhase = "idle"
    /\ valCalls = 0
    /\ valProvider = Undefined
    /\ valOutcome = NotCalled
    /\ valReturn = NoReturn
    /\ running = "none"
    /\ turns = [k \in Callers |-> IdleTurn]

\* After initAIStore (ai-service.ts 79-93), with an empty chat history.
ChatIdle ==
    /\ chatStoreReady = TRUE
    /\ chatHistory = EmptyHistory
    /\ now = 3
    /\ nextId = 0

\* The chat history documents found at start: each connection is absent or holds
\* a flat message list written by a release that had no sessions.
InitialHistories ==
    { h \in UNION { [D -> LegacyInputs] : D \in SUBSET ConnIds } :
        "c2" \in DOMAIN h => h["c2"] = <<MsgHi, MsgHello>> }

\* After initAIStore (ai-service.ts 79-93); every stored timestamp is in the past.
ChatInit ==
    /\ chatStoreReady = TRUE
    /\ chatHistory \in InitialHistories
    /\ now = 3
    /\ nextId = 0

\* The renderer's AI config store.
InitConfig == CfgInit /\ AiInit /\ ChatIdle

NextConfig ==
    \/ \E c \in LegacyConfigInputs : setConfig(c)
    \/ clearConfig
    \/ \E c \in MultiConfigInputs \cup {Null} : setMultiProviderConfig(c)
    \/ \E p \in Providers, pc \in ProviderConfigInputs : setProviderConfig(p, pc)
    \/ \E p \in Providers : removeProviderConfig(p)
    \/ \E p \in Providers : setActiveProvider(p)
    \/ \E p \in Providers : handleSetActive(p)
    \/ \E p \in Providers, m \in ModelInputs : setActiveModel(p, m)
    \/ \E ok \in BOOLEAN, data \in MultiConfigInputs \cup {Null} : loadConfigFromMain(ok, data)
    \/ Rehydrate

SpecConfig == InitConfig /\ [][NextConfig]_vars

\* The renderer's AI config store under setProviderConfig and
\* removeProviderConfig alone, from the store of a first start.
InitProviders == CfgInit /\ AiInit /\ ChatIdle

NextProviders ==
    \/ \E p \in Providers, pc \in ProviderConfigInputs : setProviderConfig(p, pc)
    \/ \E p \in Providers : removeProviderConfig(p)

SpecProviders == InitProviders /\ [][NextProviders]_vars

\* One generateChatResponse call.
InitAI == CfgInit /\ AiInit /\ ChatIdle

NextAI ==
    \/ \E p \in ProviderInputs, ms \in ConversationInputs : GenerateStart(p, ms)
    \/ GenerateResolve
    \/ GenerateReject

SpecAI == InitAI /\ [][NextAI]_vars

\* The message lists passed to saveChatHistory: those passed alone to
\* updateChatSession.
SaveLists(updates) == {u.messages : u \in {v \in updates : v.hasMessages /\ ~v.hasTitle}}

\* The validateAPIKey calls, one at a time.
InitValidate == CfgInit /\ AiInit /\ ChatIdle

NextValidate ==
    \/ \E p \in ProviderInputs : ValidateStart(p)
    \/ ValidateResolve
    \/ ValidateReject

SpecValidate == InitValidate /\ [][NextValidate]_vars

\* The calls of the chat session store on the connections conns, with the
\* titles passed to createChatSession (the empty string for none) and the
\* arguments passed to updateChatSession.
ChatNext(conns, titles, updates) ==
    \/ \E c \in conns : GetChatSessions(c)
    \/ \E c \in conns, sid \in SessionIds : GetChatSession(c, sid)
    \/ \E c \in conns, title \in titles : CreateChatSession(c, title)
    \/ \E c \in conns, sid \in SessionIds, u \in updates : UpdateChatSession(c, sid, u)
    \/ \E c \in conns, sid \in SessionIds : DeleteChatSession(c, sid)
    \/ \E c \in conns : ClearChatSessions(c)
    \/ ClearAllChatHistory
    \/ \E c \in conns : GetChatHistory(c)
    \/ \E c \in conns, messages \in SaveLists(updates) : SaveChatHistory(c, messages)
    \/ Tick

\* The chat session store on two connections, from an empty or legacy document.
InitChat == CfgInit /\ AiInit /\ ChatInit

ChatUpdates == Updates({<<>>, <<MsgShow>>, <<MsgHello>>}, {<<"Q", "3">>}, {})

NextChat == ChatNext(ConnIds, {<<>>, <<"Q", "3">>}, ChatUpdates)

SpecChat == InitChat /\ [][NextChat]_vars

\* The chat session store from the start of the process: initAIStore has been
\* called and has not resolved yet, and the chat functions are called on one
\* connection before and after it resolves.
InitLife ==
    /\ CfgInit /\ AiInit
    /\ chatStoreReady = FALSE
    /\ chatHistory \in {EmptyHistory, PutConn(EmptyHistory, "c1", <<MsgHi, MsgHello>>)}
    /\ now = 3
    /\ nextId = 0

LifeUpdates == Updates({<<>>, <<MsgShow>>}, {<<"Q", "3">>}, {})

NextLife ==
    \/ InitAIStore
    \/ ChatNext({"c1"}, {<<>>}, LifeUpdates)

SpecLife == InitLife /\ [][NextLife]_vars

\* Two callers in flight on one connection, whose document is empty or legacy;
\* the other connection holds a legacy list that no caller reads.
InitCallers ==
    /\ CfgInit /\ AiInit
    /\ chatStoreReady = TRUE
    /\ chatHistory \in { PutConn(EmptyHistory, "c2", <<MsgHello>>),
                          PutConn(PutConn(EmptyHistory, "c2", <<MsgHello>>),
                                  "c1", <<MsgHi, MsgHello>>) }
    /\ now = 3
    /\ nextId = 0

CallInputs ==
    {CreateCall(<<>>), ClearCall}
    \cup {DeleteCall(sid) : sid \in SessionIds}
    \cup {UpdateCall(sid, u) : sid \in SessionIds,
                                u \in Updates({<<MsgHello>>}, {<<"Q", "3">>}, {})}

NextCallers ==
    \/ \E k \in Callers, call \in CallInputs : StartCall(k, call)
    \/ \E k \in Callers : FinishCall(k)
    \/ \E k \in Callers, sid \in SessionIds : StartTurn(k, sid)
    \/ \E k \in Callers : SettleTurn(k)

SpecCallers == InitCallers /\ [][NextCallers]_vars

\* The round trip of message lists: the chat session store on two connections,
\* updated with lists of two messages in either order.
InitRound == CfgInit /\ AiInit /\ ChatInit

RoundUpdates == Updates({<<>>, <<MsgShow, MsgHello>>, <<MsgHello, MsgShow>>}, {}, {})

NextRound == ChatNext(ConnIds, {<<>>}, RoundUpdates)

SpecRound == InitRound /\ [][NextRound]_vars

\* A session as an earlier run of the program stored it.
StoredSession(id, title, messages, t) ==
    [id |-> id, title |-> title, messages |-> messages, createdAt |-> t, updatedAt |-> t]

\* The session list an earlier run left for a connection, most recently created
\* first; its ids are none of those this run draws.
StoredList ==
    << StoredSession(13, <<"Q", "3">>, <<MsgHi, MsgHello>>, 2),
       StoredSession(12, NewChat, <<>>, 2),
       StoredSession(11, MsgHi.content, <<MsgHi>>, 1) >>

StoredIds == {StoredList[i].id : i \in 1..Len(StoredList)}

\* The ids passed to deleteChatSession.
DeleteIds == SessionIds \cup StoredIds

\* Deleting from lists of three and more sessions: the document found at start
\* holds three sessions for c1, and for c2 nothing or a legacy list.
InitDelete ==
    /\ CfgInit /\ AiInit
    /\ chatStoreReady = TRUE
    /\ chatHistory \in { PutConn(EmptyHistory, "c1", StoredList),
                          PutConn(PutConn(EmptyHistory, "c1", StoredList),
                                  "c2", <<MsgHi, MsgHello>>) }
    /\ now = 3
    /\ nextId = 0

NextDelete ==
    \/ \E c \in ConnIds, sid \in DeleteIds : DeleteChatSession(c, sid)
    \/ \E c \in ConnIds : CreateChatSession(c, <<>>)
    \/ \E c \in ConnIds : GetChatSessions(c)
    \/ Tick

SpecDelete == InitDelete /\ [][NextDelete]_vars

\* The titles of one session: one connection with an empty document and one id
\* left to draw, every message list and every title passed.
InitTitle ==
    /\ CfgInit /\ AiInit
    /\ chatStoreReady = TRUE
    /\ chatHistory = EmptyHistory
    /\ now = 3
    /\ nextId = MaxIds - 1

TitleUpdates == Updates(MsgListInputs, TitleInputs, {<<MsgShow, MsgHello>>})

NextTitle == ChatNext({"c1"}, TitleInputs \cup {<<>>}, TitleUpdates)

SpecTitle == InitTitle /\ [][NextTitle]_vars

\* ------------------------------------------------------------- claims

\* An entry for the active provider that is present: a non-empty apiKey, or any
\* entry at all for ollama.
ActiveProviderPresent ==
    /\ multiProviderConfig # Null
    /\ \E i \in 1..Len(multiProviderConfig.providers) :
          LET e == multiProviderConfig.providers[i]
          IN /\ e.id = multiProviderConfig.activeProvider
             /\ (e.id = "ollama" \/ e.apiKey \notin {Undefined, ""})

\* C1: in every reachable state of the AI config store, isConfigured is true if
\* and only if the multi-provider configuration has a present entry for
\* activeProvider.
C1_IsConfiguredIffActivePresent == isConfigured <=> ActiveProviderPresent

\* C2: in every reachable state of the AI config store, the stored legacy config
\* equals deriveLegacyConfig(multiProviderConfig): null when the active provider
\* has no entry, otherwise the projection of that entry.
C2_LegacyConfigIsDerived ==
    IF multiProviderConfig # Null
       /\ \E i \in 1..Len(multiProviderConfig.providers) :
             multiProviderConfig.providers[i].id = multiProviderConfig.activeProvider
    THEN LET m == multiProviderConfig
             e == CHOOSE x \in {m.providers[i] : i \in 1..Len(m.providers)} :
                      x.id = m.activeProvider
         IN config = [provider |-> m.activeProvider,
                      apiKey |-> e.apiKey,
                      baseUrl |-> e.baseUrl,
                      model |-> IF m.activeModels[m.activeProvider] = Undefined
                                THEN DEFAULT_MODELS(m.activeProvider)
                                ELSE m.activeModels[m.activeProvider]]
    ELSE config = Null

\* The field table: per kind, the optional fields that must be non-null and
\* those that may be non-null.
RequiredOf(kind) ==
    CASE kind = "query" -> {"sql", "explanation"}
      [] kind = "chart" -> {"sql", "title", "chartType", "xKey", "yKeys"}
      [] kind = "metric" -> {"sql", "label", "format"}
      [] kind = "schema" -> {"tables"}
      [] kind = "message" -> {}

OptionalOf(kind) ==
    CASE kind = "query" -> {"warning", "requiresConfirmation"}
      [] kind = "chart" -> {"description"}
      [] OTHER -> {}

\* C3: for each of the five kinds, the non-null fields of the normalized response
\* are exactly those the kind's row of the field table allows: every field that
\* is neither required nor optional for the kind is null, and every required
\* field is non-null.
C3_NonNullFieldsMatchKind ==
    (aiPhase = "returned" /\ aiReturn.success) =>
        LET d == aiReturn.data
        IN \A f \in OptionalFieldSet :
              /\ f \notin RequiredOf(d.type) \cup OptionalOf(d.type) => d[f] = NullV
              /\ f \in RequiredOf(d.type) => d[f] # NullV

\* C4: whichever optional fields the raw object omits, the normalized response
\* holds all twelve of them plus type and message, none of them undefined: an
\* omitted field is null and a supplied field keeps its value; a resolved
\* generation call always yields a normalized response.
C4_EveryFieldPresent ==
    (aiPhase = "returned" /\ aiRaw # NoObject) =>
        /\ aiReturn.success
        /\ DOMAIN aiReturn.data = AllFields
        /\ aiReturn.data.type = aiRaw.type
        /\ aiReturn.data.message = aiRaw.message
        /\ \A f \in OptionalFieldSet :
              /\ aiReturn.data[f] # Undefined
              /\ aiRaw[f] = Undefined => aiReturn.data[f] = NullV
              /\ aiRaw[f] # Undefined => aiReturn.data[f] = aiRaw[f]

\* C4 witness: a response returned for a raw object that omits some fields,
\* carries an explicit null and carries values, one of them the boolean false.
C4_Witness ==
    /\ aiPhase = "returned"
    /\ aiRaw # NoObject
    /\ aiRaw.title = Undefined /\ aiReturn.data.title = NullV
    /\ aiRaw.tables = NullV
    /\ aiRaw.requiresConfirmation = "false" /\ aiReturn.data.requiresConfirmation = "false"
    /\ aiRaw.sql = "SELECT 1" /\ aiReturn.data.sql = "SELECT 1"

\* The connection c holds a session list with a session sid.
HoldsSession(h, c, sid) ==
    /\ c \in DOMAIN h
    /\ \E i \in 1..Len(h[c]) : "messages" \in DOMAIN h[c][i] /\ h[c][i].id = sid

SessionIn(h, c, sid) == h[c][CHOOSE i \in 1..Len(h[c]) : h[c][i].id = sid]

HasUserMessage(messages) == \E i \in 1..Len(messages) : messages[i].role = "user"

FirstUserContent(messages) ==
    LET users == {i \in 1..Len(messages) : messages[i].role = "user"}
    IN messages[CHOOSE i \in users : \A j \in users : i <= j].content

\* s without its leading and trailing spaces.
Strip(s) ==
    LET inked == {i \in 1..Len(s) : s[i] # " "}
    IN IF inked = {} THEN <<>>
       ELSE SubSeq(s, CHOOSE i \in inked : \A j \in inked : i <= j,
                      CHOOSE i \in inked : \A j \in inked : j <= i)

\* s cut to its first 40 characters, with an ellipsis iff it was longer.
Cut40(s) == IF Len(s) > 40 THEN SubSeq(s, 1, 40) \o <<".", ".", ".">> ELSE s

DerivedTitle(messages) ==
    IF HasUserMessage(messages) THEN Cut40(Strip(FirstUserContent(messages))) ELSE NewChat

StampOr(stamp, t) == IF stamp > 0 THEN stamp ELSE t

\* C5: a getChatSessions call on a connection holding a legacy flat message list
\* returns exactly one session with the legacy messages in their order, the
\* title derived from the first user message, createdAt the first message's
\* timestamp and updatedAt the last message's (the current time when the
\* message has none), and the store holds that one-session list afterwards.
C5_LegacyReadMigrates ==
    [][\A c \in ConnIds :
         (c \in DOMAIN chatHistory /\ chatHistory[c] \in LegacyInputs /\ GetChatSessions(c)) =>
            LET legacy == chatHistory[c]
                ret == getChatSessions(chatStoreReady, chatHistory, c, now, nextId + 1).sessions
            IN /\ Len(ret) = 1
               /\ ret[1].messages = legacy
               /\ ret[1].title = DerivedTitle(legacy)
               /\ ret[1].createdAt = StampOr(legacy[1].createdAt, now)
               /\ ret[1].updatedAt = StampOr(legacy[Len(legacy)].createdAt, now)
               /\ \A d \in DOMAIN chatHistory \ {c} :
                     \A i \in 1..Len(chatHistory[d]) :
                        "messages" \in DOMAIN chatHistory[d][i] => chatHistory[d][i].id # ret[1].id
               /\ chatHistory'[c] = ret]_vars

\* C5 witness: a connection holds the session migrated from the legacy list
\* (assistant "hello" at 2, user "hi" at 1).
C5_Witness ==
    \E c \in DOMAIN chatHistory :
       /\ Len(chatHistory[c]) = 1
       /\ "messages" \in DOMAIN chatHistory[c][1]
       /\ chatHistory[c][1].messages = <<MsgHello, MsgHi>>
       /\ chatHistory[c][1].title = <<"h", "i">>
       /\ chatHistory[c][1].createdAt = 2
       /\ chatHistory[c][1].updatedAt = 1

\* C6: after a getChatSessions call the connection holds session-shaped data, on
\* which the legacy detector is false, and a second getChatSessions call right
\* after it writes nothing and returns the same session list with the same ids.
C6_MigrationIdempotent ==
    [][\A c \in ConnIds :
         GetChatSessions(c) =>
            LET first == getChatSessions(chatStoreReady, chatHistory, c, now, nextId + 1)
                second == getChatSessions(chatStoreReady', chatHistory', c, now', nextId' + 1)
            IN /\ c \in DOMAIN chatHistory' =>
                     /\ \A i \in 1..Len(chatHistory'[c]) : "messages" \in DOMAIN chatHistory'[c][i]
                     /\ ~isLegacyFormat(chatHistory'[c])
               /\ ~isLegacyFormat(<<>>)
               /\ ~second.wrote
               /\ second.history = chatHistory'
               /\ second.sessions = first.sessions]_vars

\* C6 witness: a connection holds the session migrated from the legacy list of
\* one assistant message, and an id was drawn for it.
C6_Witness ==
    /\ nextId >= 1
    /\ \E c \in DOMAIN chatHistory :
          /\ Len(chatHistory[c]) = 1
          /\ "messages" \in DOMAIN chatHistory[c][1]
          /\ chatHistory[c][1].messages = <<MsgHello>>
          /\ chatHistory[c][1].title = NewChat
          /\ chatHistory[c][1].createdAt = 2

\* C7: createChatSession stores the session it returns with no messages; after
\* updateChatSession(c, id, {messages: M}) on a stored session, getChatSession
\* (c, id) returns a session whose messages are M, the same messages in the same
\* order (M being empty or two messages in either order), and whose updatedAt
\* is not earlier than its createdAt.
C7_RoundTrip ==
    [][/\ \A c \in ConnIds, title \in {<<>>} :
            CreateChatSession(c, title) =>
               LET s == createChatSession(chatStoreReady, chatHistory, c, title, now, now',
                                          nextId + 1, nextId + 2).sessions[1]
                   got == getChatSession(chatStoreReady', chatHistory', c, s.id, now',
                                         nextId' + 1).sessions
               IN s.messages = <<>> /\ got = <<s>>
       /\ \A c \in ConnIds, sid \in SessionIds, u \in RoundUpdates :
            (u.hasMessages /\ ~u.hasTitle /\ HoldsSession(chatHistory, c, sid)
                /\ UpdateChatSession(c, sid, u)) =>
               LET got == getChatSession(chatStoreReady', chatHistory', c, sid, now',
                                         nextId' + 1).sessions
               IN /\ Len(got) = 1
                  /\ got[1].id = sid
                  /\ Len(got[1].messages) = Len(u.messages)
                  /\ \A i \in 1..Len(u.messages) : got[1].messages[i] = u.messages[i]
                  /\ got[1].updatedAt >= got[1].createdAt]_vars

\* C7 witness: two sessions created at 3 hold the two messages passed by
\* updates made at 4, one in each order.
C7_Witness ==
    \E c \in DOMAIN chatHistory :
       /\ Len(chatHistory[c]) = 2
       /\ "messages" \in DOMAIN chatHistory[c][1]
       /\ \A i \in 1..2 : chatHistory[c][i].createdAt = 3 /\ chatHistory[c][i].updatedAt = 4
       /\ chatHistory[c][1].messages = <<MsgHello, MsgShow>>
       /\ chatHistory[c][2].messages = <<MsgShow, MsgHello>>

\* An updateChatSession step that passes messages and no title to a stored
\* session whose title is the default.
AutoTitleStep(c, sid, u) ==
    /\ u.hasMessages /\ ~u.hasTitle /\ u.messages # <<>>
    /\ HoldsSession(chatHistory, c, sid)
    /\ SessionIn(chatHistory, c, sid).title = NewChat
    /\ UpdateChatSession(c, sid, u)

\* C8: when updateChatSession passes a non-empty message list and no title to a
\* session whose stored title is "New Chat", the title becomes the content of
\* the first user message without its leading and trailing whitespace, cut to
\* 40 characters and followed by an ellipsis iff the trimmed content was longer
\* than 40 characters; with no user message in the list it stays "New Chat".
C8_AutoTitle ==
    [][\A c \in ConnIds, sid \in SessionIds, u \in TitleUpdates :
         AutoTitleStep(c, sid, u) =>
            SessionIn(chatHistory', c, sid).title = DerivedTitle(u.messages)]_vars

\* C8 witness: the session updated with a first user message of a space and 40
\* characters is titled with the 40 characters.
C8_Witness ==
    /\ HoldsSession(chatHistory, "c1", MaxIds)
    /\ SessionIn(chatHistory, "c1", MaxIds).messages = <<MsgHello, MsgPadded>>
    /\ SessionIn(chatHistory, "c1", MaxIds).title = [i \in 1..40 |-> "x"]

\* C8 as stated: the title becomes the content of the first user message, cut to
\* its first 40 characters and followed by an ellipsis iff it was longer.
C8_AutoTitleUntrimmed ==
    [][\A c \in ConnIds, sid \in SessionIds, u \in TitleUpdates :
         (HasUserMessage(u.messages) /\ AutoTitleStep(c, sid, u)) =>
            SessionIn(chatHistory', c, sid).title = Cut40(FirstUserContent(u.messages))]_vars

\* C9: once a session's messages are non-empty, no updateChatSession call that
\* passes only messages changes its title; a call that passes both messages and
\* a title stores the title passed.
C9_TitleReplacedAtMostOnce ==
    [][\A c \in ConnIds, sid \in SessionIds, u \in TitleUpdates :
         (u.hasMessages /\ HoldsSession(chatHistory, c, sid) /\ UpdateChatSession(c, sid, u)) =>
            /\ (~u.hasTitle /\ SessionIn(chatHistory, c, sid).messages # <<>>) =>
                  SessionIn(chatHistory', c, sid).title = SessionIn(chatHistory, c, sid).title
            /\ u.hasTitle => SessionIn(chatHistory', c, sid).title = u.title]_vars

\* The three calls of the scenario on the stored session sid of connection c.
FirstMessageStep(c, sid, u) ==
    /\ u.hasMessages /\ ~u.hasTitle /\ u.messages = <<MsgShow>>
    /\ HoldsSession(chatHistory, c, sid)
    /\ SessionIn(chatHistory, c, sid).title = NewChat
    /\ SessionIn(chatHistory, c, sid).messages = <<>>
    /\ UpdateChatSession(c, sid, u)

ExplicitTitleStep(c, sid, u) ==
    /\ ~u.hasMessages /\ u.hasTitle
    /\ HoldsSession(chatHistory, c, sid)
    /\ SessionIn(chatHistory, c, sid).messages = <<MsgShow>>
    /\ SessionIn(chatHistory, c, sid).title = MsgShow.content
    /\ UpdateChatSession(c, sid, u)

\* The title the second call of the scenario sets.
ScenarioTitle == <<"Q", "3">>

MoreMessagesStep(c, sid, u) ==
    /\ u.hasMessages /\ ~u.hasTitle /\ u.messages = <<MsgShow, MsgHello>>
    /\ HoldsSession(chatHistory, c, sid)
    /\ SessionIn(chatHistory, c, sid).messages = <<MsgShow>>
    /\ SessionIn(chatHistory, c, sid).title = ScenarioTitle
    /\ UpdateChatSession(c, sid, u)

\* C10: a session with the default title and no messages, updated with the one
\* message {user, "show me all users from last week please"}, is titled with
\* that whole content (39 characters, no ellipsis); a second call that sets the
\* title "Q3" explicitly replaces it; a third call that passes only more
\* messages leaves that explicit title unchanged.
C10_Scenario ==
    [][\A c \in ConnIds, sid \in SessionIds, u \in TitleUpdates :
         /\ FirstMessageStep(c, sid, u) =>
               /\ Len(MsgShow.content) = 39
               /\ SessionIn(chatHistory', c, sid).title = MsgShow.content
         /\ ExplicitTitleStep(c, sid, u) =>
               SessionIn(chatHistory', c, sid).title = u.title
         /\ MoreMessagesStep(c, sid, u) =>
               /\ SessionIn(chatHistory', c, sid).title = ScenarioTitle
               /\ SessionIn(chatHistory', c, sid).messages = u.messages]_vars

\* C10 witness: after the three calls the session holds both messages under the
\* explicit title.
C10_Witness ==
    /\ HoldsSession(chatHistory, "c1", MaxIds)
    /\ SessionIn(chatHistory, "c1", MaxIds).messages = <<MsgShow, MsgHello>>
    /\ SessionIn(chatHistory, "c1", MaxIds).title = <<"Q", "3">>
    /\ SessionIn(chatHistory, "c1", MaxIds).updatedAt > SessionIn(chatHistory, "c1", MaxIds).createdAt

\* C10 as stated: the first update gives the title
\* "show me all users from last week pl...".
C10_ScenarioAsStated ==
    [][\A c \in ConnIds, sid \in SessionIds, u \in TitleUpdates :
         FirstMessageStep(c, sid, u) =>
            SessionIn(chatHistory', c, sid).title =
               SubSeq(MsgShow.content, 1, 35) \o <<".", ".", ".">>]_vars

\* The value stored for c is a flat message list.
HoldsLegacy(h, c) == c \in DOMAIN h /\ h[c] # <<>> /\ "messages" \notin DOMAIN h[c][1]

\* The value stored for d is the same in h1 and in h2.
SameFor(h1, h2, d) ==
    /\ d \in DOMAIN h1 <=> d \in DOMAIN h2
    /\ d \in DOMAIN h1 => h1[d] = h2[d]

\* The id sid was drawn before and is not in the list of c.
MissingId(c, sid) == sid <= nextId /\ ~HoldsSession(chatHistory, c, sid)

\* C11: updateChatSession on a session id that is not in the connection's list
\* returns null and leaves every stored session list as it is; the one change it
\* can make is the migration of the connection's own legacy message list into
\* its one-session list, as any read of that connection does.
C11_UpdateMissingId ==
    \A c \in ConnIds, sid \in SessionIds, u \in ChatUpdates :
       MissingId(c, sid) =>
          LET r == updateChatSession(chatStoreReady, chatHistory, c, sid, u, now, now,
                                     nextId + 1)
          IN /\ r.sessions = <<>>
             /\ \A d \in ConnIds \ {c} : SameFor(chatHistory, r.history, d)
             /\ ~HoldsLegacy(chatHistory, c) => r.history = chatHistory
             /\ HoldsLegacy(chatHistory, c) =>
                   /\ Len(r.history[c]) = 1
                   /\ r.history[c][1].messages = chatHistory[c]
                   /\ r.history[c][1].id = nextId + 1
                   /\ r.history[c][1].title = DerivedTitle(chatHistory[c])

\* C11 witness: an id was drawn on one connection, and the other connection
\* holds the session migrated from its legacy list under the next id, not
\* updated since.
C11_Witness ==
    /\ nextId = 2
    /\ HoldsSession(chatHistory, "c2", 1)
    /\ HoldsSession(chatHistory, "c1", 2)
    /\ Len(chatHistory["c1"]) = 1
    /\ chatHistory["c1"][1].messages = <<MsgHello, MsgHi>>
    /\ chatHistory["c1"][1].updatedAt = 1

\* C11 as stated: after updateChatSession on an id that is not in the list, the
\* chat history store is what it was before, legacy data included.
C11_UpdateMissingIdNoWrite ==
    [][\A c \in ConnIds, sid \in SessionIds, u \in ChatUpdates :
         (MissingId(c, sid) /\ UpdateChatSession(c, sid, u)) =>
            chatHistory' = chatHistory]_vars

\* The session list a call on c reads: the stored list, the migrated list for
\* legacy data, the empty list for no data.
ListRead(h, c, t, id) == getChatSessions(chatStoreReady, h, c, t, id).sessions

\* C12: deleteChatSession(c, id) returns true iff a session with that id was in
\* the list of c; then the list is the previous one without that session, the
\* others in their order; when it returns false the list is unchanged; a second
\* deleteChatSession with the same id returns false.
C12_DeleteSession ==
    \A c \in ConnIds, sid \in DeleteIds :
       (sid \in StoredIds \/ sid <= nextId) =>
          LET before == ListRead(chatHistory, c, now, nextId + 1)
              r == deleteChatSession(chatStoreReady, chatHistory, c, sid, now, nextId + 1)
              after == ListRead(r.history, c, now, nextId + 1)
              at == {i \in 1..Len(before) : before[i].id = sid}
              again == deleteChatSession(chatStoreReady, r.history, c, sid, now, nextId + 2)
          IN /\ r.ok <=> at # {}
             /\ r.ok =>
                   /\ Len(after) = Len(before) - 1
                   /\ \A i \in 1..Len(after) :
                         after[i] = IF \E k \in at : k <= i THEN before[i + 1] ELSE before[i]
             /\ ~r.ok => after = before
             /\ (~r.ok /\ ~HoldsLegacy(chatHistory, c)) => r.history = chatHistory
             /\ ~again.ok
             /\ again.history = r.history

\* C12 witness: the middle one of the three stored sessions was deleted from a
\* list of four; the session created in this run and the two other stored
\* sessions stand in their order.
C12_Witness ==
    /\ Len(chatHistory["c1"]) = 3
    /\ chatHistory["c1"][1].id = 1
    /\ chatHistory["c1"][2] = StoredList[1]
    /\ chatHistory["c1"][3] = StoredList[3]

\* C13: createChatSession returns a session with no messages and createdAt =
\* updatedAt and puts it in front of the list of c; every stored list is ordered
\* most recently created first (createdAt does not increase from front to
\* back), a migrated session standing behind a session created after it;
\* updateChatSession keeps the order of the list.
C13_NewestFirst ==
    /\ \A c \in ConnIds, title \in {<<>>, <<"Q", "3">>}, tm \in now..MaxClock :
          LET before == ListRead(chatHistory, c, tm, nextId + 2)
              r == createChatSession(chatStoreReady, chatHistory, c, title, now, tm,
                                     nextId + 1, nextId + 2)
              s == r.sessions[1]
          IN /\ Len(r.sessions) = 1
             /\ s.messages = <<>>
             /\ s.createdAt = now /\ s.updatedAt = now
             /\ s.id = nextId + 1
             /\ r.history[c] = <<s>> \o before
    /\ \A c \in DOMAIN chatHistory :
          ~HoldsLegacy(chatHistory, c) =>
             \A i, j \in 1..Len(chatHistory[c]) :
                i < j => chatHistory[c][i].createdAt >= chatHistory[c][j].createdAt
    /\ \A c \in ConnIds, sid \in SessionIds, u \in ChatUpdates, tu \in now..MaxClock :
          LET before == ListRead(chatHistory, c, now, nextId + 1)
              r == updateChatSession(chatStoreReady, chatHistory, c, sid, u, now, tu,
                                     nextId + 1)
              after == ListRead(r.history, c, tu, nextId + 1)
          IN /\ Len(after) = Len(before)
             /\ \A i \in 1..Len(before) :
                   after[i].id = before[i].id /\ after[i].createdAt = before[i].createdAt

\* C14: no two sessions in one connection's session list have the same id.
C14_UniqueIds ==
    \A c \in DOMAIN chatHistory :
       ~HoldsLegacy(chatHistory, c) =>
          \A i, j \in 1..Len(chatHistory[c]) :
             chatHistory[c][i].id = chatHistory[c][j].id => i = j

\* C14 witness: a connection holds two created sessions, both with messages
\* saved after their creation.
C14_Witness ==
    \E c \in DOMAIN chatHistory :
       /\ Len(chatHistory[c]) = 2
       /\ "messages" \in DOMAIN chatHistory[c][1]
       /\ chatHistory[c][1].id # chatHistory[c][2].id
       /\ chatHistory[c][1].createdAt >= 3 /\ chatHistory[c][2].createdAt >= 3
       /\ chatHistory[c][1].messages = <<MsgShow>>
       /\ chatHistory[c][2].messages = <<MsgHello>>

\* C15: every call keyed by a connection c leaves the value stored for every
\* other connection d as it is, d's legacy data included, and getChatSession
\* (c, id) returns no session that is stored under another connection only.
C15_ConnectionsPartition ==
    \A c \in ConnIds : \A d \in ConnIds \ {c} :
       LET h == chatHistory
           ready == chatStoreReady
           id == nextId + 1
       IN /\ SameFor(h, getChatSessions(ready, h, c, now, id).history, d)
          /\ SameFor(h, getChatHistory(ready, h, c, now, id).history, d)
          /\ SameFor(h, clearChatSessions(ready, h, c), d)
          /\ \A title \in {<<>>, <<"Q", "3">>}, tm \in now..MaxClock :
                SameFor(h, createChatSession(ready, h, c, title, now, tm, id, id + 1).history,
                        d)
          /\ \A messages \in SaveLists(ChatUpdates), tu \in now..MaxClock :
                SameFor(h, saveChatHistory(ready, h, c, messages, now, tu, id).history, d)
          /\ \A sid \in SessionIds :
                /\ SameFor(h, getChatSession(ready, h, c, sid, now, id).history, d)
                /\ SameFor(h, deleteChatSession(ready, h, c, sid, now, id).history, d)
                /\ \A u \in ChatUpdates, tu \in now..MaxClock :
                      SameFor(h, updateChatSession(ready, h, c, sid, u, now, tu, id).history,
                              d)
                /\ (HoldsSession(h, d, sid) /\ ~HoldsSession(h, c, sid)) =>
                      getChatSession(ready, h, c, sid, now, id).sessions = <<>>

\* C15 witness: two ids were drawn by calls on one connection while the other
\* still holds its legacy message list.
C15_Witness ==
    /\ nextId = 2
    /\ HoldsLegacy(chatHistory, "c2")
    /\ chatHistory["c2"] = <<MsgHi, MsgHello>>
    /\ HoldsSession(chatHistory, "c1", 1)
    /\ HoldsSession(chatHistory, "c1", 2)
    /\ chatHistory["c1"][1].messages = <<MsgShow>>

\* The entry e is a present configuration.
PresentEntry(e) == e.id = "ollama" \/ e.apiKey \notin {Undefined, ""}

\* The entries of providers other than p's, in their order.
OtherEntries(providers, p) == SelectSeq(providers, LAMBDA e : e.id # p)

\* C16: removeProviderConfig(p) deletes p's entry; when p was the active
\* provider the new active provider is the first remaining provider whose
\* configuration is present, and openai when none is; when p was not active,
\* activeProvider is unchanged.
C16_RemoveSwitchesToFirstPresent ==
    [][\A p \in Providers :
         (multiProviderConfig # Null /\ removeProviderConfig(p)) =>
            LET old == multiProviderConfig
                rest == OtherEntries(old.providers, p)
                present == {i \in 1..Len(rest) : PresentEntry(rest[i])}
            IN /\ multiProviderConfig'.providers = rest
               /\ multiProviderConfig'.activeProvider =
                     IF p # old.activeProvider THEN old.activeProvider
                     ELSE IF present = {} THEN "openai"
                     ELSE rest[CHOOSE i \in present : \A j \in present : i <= j].id]_vars

\* C17: removeProviderConfig on the active provider when no other provider has
\* an entry leaves activeProvider = openai, no entries, isConfigured false and a
\* null legacy config, also when the provider removed is openai.
C17_RemoveLastProvider ==
    [][\A p \in Providers :
         (/\ multiProviderConfig # Null
          /\ multiProviderConfig.activeProvider = p
          /\ OtherEntries(multiProviderConfig.providers, p) = <<>>
          /\ removeProviderConfig(p)) =>
            /\ multiProviderConfig' # Null
            /\ multiProviderConfig'.providers = <<>>
            /\ multiProviderConfig'.activeProvider = "openai"
            /\ isConfigured' = FALSE
            /\ config' = Null]_vars

\* C17 witness: a multi-provider config with no entries, openai active, after a
\* model was chosen for it.
C17_Witness ==
    /\ multiProviderConfig # Null
    /\ multiProviderConfig.providers = <<>>
    /\ multiProviderConfig.activeProvider = "openai"
    /\ multiProviderConfig.activeModels["openai"] = "model-b"
    /\ ~isConfigured
    /\ config = Null

\* C18: setProviderConfig(p, cfg) writes p's entry and leaves the other entries
\* and every active model as they were; p becomes the active provider exactly
\* when there was no multi-provider config, otherwise activeProvider is kept.
C18_SetProviderConfigFrame ==
    [][\A p \in Providers, pc \in ProviderConfigInputs :
         setProviderConfig(p, pc) =>
            LET old == multiProviderConfig
                new == multiProviderConfig'
                mine == {i \in 1..Len(new.providers) : new.providers[i].id = p}
            IN /\ OtherEntries(new.providers, p) =
                     IF old = Null THEN <<>> ELSE OtherEntries(old.providers, p)
               /\ Cardinality(mine) = 1
               /\ \A i \in mine :
                     new.providers[i] = [id |-> p, apiKey |-> pc.apiKey, baseUrl |-> pc.baseUrl]
               /\ \A q \in Providers :
                     new.activeModels[q] = IF old = Null THEN Undefined ELSE old.activeModels[q]
               /\ new.activeProvider = IF old = Null THEN p ELSE old.activeProvider]_vars

\* C18 witness: three entries, the second written again with another value,
\* under the provider that was active before they were written.
C18_Witness ==
    /\ multiProviderConfig # Null
    /\ Len(multiProviderConfig.providers) = 3
    /\ multiProviderConfig.providers[1].id = "ollama"
    /\ multiProviderConfig.providers[2] =
          [id |-> "openai", apiKey |-> Undefined, baseUrl |-> "http://host"]
    /\ multiProviderConfig.activeProvider = "ollama"
    /\ multiProviderConfig.activeModels["ollama"] = "model-b"

\* C19: setActiveProvider and setActiveModel change nothing when there is no
\* multi-provider config; otherwise setActiveProvider(p) changes activeProvider
\* only, and setActiveModel(p, m) the active model of p only.
C19_SetActiveFrame ==
    [][\A p \in Providers, m \in ModelInputs :
         /\ setActiveProvider(p) =>
               IF multiProviderConfig = Null THEN UNCHANGED vars
               ELSE /\ multiProviderConfig'.providers = multiProviderConfig.providers
                    /\ multiProviderConfig'.activeModels = multiProviderConfig.activeModels
                    /\ multiProviderConfig'.activeProvider = p
         /\ setActiveModel(p, m) =>
               IF multiProviderConfig = Null THEN UNCHANGED vars
               ELSE /\ multiProviderConfig'.providers = multiProviderConfig.providers
                    /\ multiProviderConfig'.activeProvider = multiProviderConfig.activeProvider
                    /\ multiProviderConfig'.activeModels[p] = m
                    /\ \A q \in Providers \ {p} :
                          multiProviderConfig'.activeModels[q] =
                             multiProviderConfig.activeModels[q]]_vars

\* C19 witness: a provider without an entry is active and two providers have an
\* active model.
C19_Witness ==
    /\ multiProviderConfig # Null
    /\ multiProviderConfig.activeProvider = "anthropic"
    /\ ~HasEntry(multiProviderConfig.providers, "anthropic")
    /\ multiProviderConfig.activeModels["ollama"] = "model-b"
    /\ multiProviderConfig.activeModels["openai"] = "model-b"
    /\ config = Null

\* C20: validateAPIKey never throws: every call, also one with a provider id
\* that is not registered and one whose generateText call rejects with any
\* value, settles as {valid: true} or as {valid: false, error: text}, and as
\* {valid: true} only when getModel returned a model and generateText resolved.
C20_ValidateNeverThrows ==
    /\ valPhase = "awaiting" => (getModel(valProvider) /\ valReturn = NoReturn)
    /\ valPhase = "returned" =>
          /\ DOMAIN valReturn = {"valid", "error"}
          /\ valReturn.valid \in BOOLEAN
          /\ valReturn.valid => valReturn.error = Undefined
          /\ ~valReturn.valid =>
                /\ valReturn.error # Undefined
                /\ valReturn.error \in Seq(STRING)
          /\ valReturn.valid <=> (getModel(valProvider) /\ valOutcome = Resolved)
          /\ ~getModel(valProvider) =>
                valReturn.error = <<"Unknown", "provider:", valProvider>>

\* C20 witness: the second call, with a provider that is not registered, has
\* settled as not valid with the message of the error getModel threw.
C20_Witness ==
    /\ valPhase = "returned"
    /\ valCalls = 2
    /\ valProvider = "mistral"
    /\ valReturn = [valid |-> FALSE, error |-> <<"Unknown", "provider:", "mistral">>]

\* The failure signatures in the order they decide, each with its category text.
Categories ==
    << [signatures |-> {"401", "Unauthorized"},
        text |-> <<"Invalid", "API", "key">>],
       [signatures |-> {"403", "Forbidden"},
        text |-> <<"API", "key", "does", "not", "have", "required", "permissions">>],
       [signatures |-> {"429"},
        text |-> <<"Rate", "limit", "exceeded.", "Please", "try", "again", "later.">>],
       [signatures |-> {"ECONNREFUSED", "ENOTFOUND"},
        text |-> <<"Could", "not", "connect", "to", "AI", "provider.", "Check", "your",
                   "network.">>] >>

\* The categories whose signature the message carries.
Carried(message) ==
    {k \in 1..Len(Categories) :
        Categories[k].signatures \cap {message[i] : i \in 1..Len(message)} # {}}

\* C21: a failed validation reports exactly one category: the text of the first
\* category (unauthorized, forbidden, rate limit, connection) whose signature the
\* error message carries, and the error message itself, unchanged, when it
\* carries none.
C21_FailureCategories ==
    (valPhase = "returned" /\ "isError" \in DOMAIN valOutcome /\ valOutcome.isError) =>
        LET message == valOutcome.message
            carried == Carried(message)
        IN /\ ~valReturn.valid
           /\ IF carried = {} THEN valReturn.error = message
              ELSE valReturn.error =
                      Categories[CHOOSE k \in carried : \A j \in carried : k <= j].text

\* C21 witness: a failure carrying the forbidden and the rate-limit signatures
\* was reported as the permissions category.
C21_Witness ==
    /\ valPhase = "returned"
    /\ valOutcome = ErrorOf(<<"Forbidden", "429">>)
    /\ valReturn.error = <<"API", "key", "does", "not", "have", "required", "permissions">>

\* C22: generateChatResponse never rejects: every call settles by returning, a
\* failure (unregistered provider, empty conversation, any error of the
\* generateObject call) as {success: false, error: message} without data, and
\* {success: true} only with the normalized response of a resolved call.
C22_GenerateNeverThrows ==
    /\ aiPhase \in {"idle", "awaiting", "returned"}
    /\ aiPhase = "returned" =>
          /\ DOMAIN aiReturn = {"success", "data", "error"}
          /\ aiReturn.success =>
                /\ aiRaw # NoObject
                /\ aiReturn.data = normalizedData(aiRaw)
          /\ ~aiReturn.success =>
                /\ aiReturn.data = NoObject
                /\ aiReturn.error \notin {Undefined, NullV}

\* C23: a generateChatResponse invocation issues at most one generateObject
\* call, settles without another call when that call fails, takes no step once
\* it has settled, and none of its steps changes the chat history store or the
\* AI config store.
C23_GenerateFrame ==
    [][/\ UNCHANGED <<chatStoreReady, chatHistory, nextId>>
       /\ UNCHANGED <<multiProviderConfig, config, isConfigured, storage>>
       /\ aiPhase \in {"idle", "awaiting"}
       /\ aiCalls' <= 1
       /\ aiCalls' = IF aiPhase = "idle" /\ aiPhase' = "awaiting" THEN aiCalls + 1 ELSE aiCalls
       /\ aiPhase = "awaiting" => aiPhase' \in {"returned", "rejected"}]_vars

\* C23 witness: a call has returned a failure after its one generateObject call.
C23_Witness ==
    /\ aiPhase = "returned"
    /\ ~aiReturn.success
    /\ aiCalls = 1
    /\ aiReturn.error = "429 Too Many Requests"

\* C26: for every provider, the modal's hasProviderConfig is true exactly when
\* the config store holds an entry for the provider that is present (a non-empty
\* apiKey, or any entry at all for ollama).
C26_ModalAgreesWithStore ==
    \A p \in Providers :
        hasProviderConfig(multiProviderConfig, p) <=>
            /\ multiProviderConfig # Null
            /\ \E i \in 1..Len(multiProviderConfig.providers) :
                  /\ multiProviderConfig.providers[i].id = p
                  /\ PresentEntry(multiProviderConfig.providers[i])

\* The number of messages the sessions hold together.
RECURSIVE MessageCount(_)
MessageCount(sessions) ==
    IF sessions = <<>> THEN 0
    ELSE Len(Head(sessions).messages) + MessageCount(Tail(sessions))

\* The messages returned are those of all the sessions together, in some order.
AllCombined(messages, sessions) ==
    /\ Len(messages) = MessageCount(sessions)
    /\ \A i \in 1..Len(sessions) : \A j \in 1..Len(sessions[i].messages) :
          \E k \in 1..Len(messages) : messages[k] = sessions[i].messages[j]

\* saveChatHistory(c, M) followed by getChatHistory(c) returns M; the save makes
\* one session when c has none, and otherwise changes the first session only.
SaveThenGet(c, M) ==
  \A tu \in now..MaxClock :
    LET before == ListRead(chatHistory, c, now, nextId + 1)
        saved == saveChatHistory(chatStoreReady, chatHistory, c, M, now, tu, nextId + 1)
        after == ListRead(saved.history, c, tu, nextId + 2)
        read == getChatHistory(chatStoreReady, saved.history, c, tu, nextId + 2)
    IN /\ read.messages = M
       /\ before = <<>> => Len(after) = 1
       /\ before # <<>> =>
             /\ Len(after) = Len(before)
             /\ after[1].id = before[1].id
             /\ after[1].messages = M
             /\ \A i \in 2..Len(before) : after[i] = before[i]

\* C27: getChatHistory(c) returns the messages of all the sessions of c
\* combined, and saveChatHistory(c, M) followed by getChatHistory(c) returns M,
\* the save making exactly one session when c has none and otherwise replacing
\* the messages of the first session only.
C27_LegacyHistoryApi ==
    \A c \in ConnIds :
        /\ AllCombined(getChatHistory(chatStoreReady, chatHistory, c, now, nextId + 1).messages,
                       ListRead(chatHistory, c, now, nextId + 1))
        /\ \A M \in SaveLists(ChatUpdates) : SaveThenGet(c, M)

\* The part of C27 about saveChatHistory alone.
C27SaveRoundTrip == \A c \in ConnIds : \A M \in SaveLists(ChatUpdates) : SaveThenGet(c, M)

\* C28: every session the chat history store holds has updatedAt not earlier
\* than createdAt, sessions migrated from legacy message lists included.
C28_UpdatedNotBeforeCreated ==
    \A c \in DOMAIN chatHistory : \A i \in 1..Len(chatHistory[c]) :
        "messages" \in DOMAIN chatHistory[c][i] =>
            chatHistory[c][i].updatedAt >= chatHistory[c][i].createdAt

\* C29: after any sequence of setProviderConfig and removeProviderConfig calls,
\* when some provider has a present configuration the active provider has one
\* and isConfigured is true.
C29_ActiveAmongPresent ==
    (/\ multiProviderConfig # Null
     /\ \E i \in 1..Len(multiProviderConfig.providers) :
           PresentEntry(multiProviderConfig.providers[i]))
    => /\ \E i \in 1..Len(multiProviderConfig.providers) :
             /\ multiProviderConfig.providers[i].id = multiProviderConfig.activeProvider
             /\ PresentEntry(multiProviderConfig.providers[i])
       /\ isConfigured

\* C30: a createChatSession call, also one made before initAIStore has
\* resolved, returns a session that getChatSession finds under its id
\* afterwards (until it is deleted or cleared).
C30_CreatedSessionIsFound ==
    [][\A title \in {<<>>} :
         CreateChatSession("c1", title) =>
            LET created == createChatSession(chatStoreReady, chatHistory, "c1", title, now,
                                             now', nextId + 1, nextId + 2).sessions[1]
                found == getChatSession(chatStoreReady', chatHistory', "c1", created.id, now',
                                        nextId' + 1).sessions
            IN found = <<created>>]_vars

\* The stored list of c in h, the empty list when c has none.
ListOf(h, c) == IF c \in DOMAIN h THEN h[c] ELSE <<>>

\* after is before changed by the effect of call on the connection's session
\* list and by nothing else.
OwnEffect(call, before, after) ==
    /\ \A d \in ConnIds \ {CallConn} : SameFor(before, after, d)
    /\ call.kind # "clear" => ~HoldsLegacy(before, CallConn)
    /\ LET old == ListOf(before, CallConn)
           new == ListOf(after, CallConn)
       IN CASE call.kind = "create" ->
                 /\ Len(new) = Len(old) + 1
                 /\ new[1].messages = <<>>
                 /\ \A i \in 1..Len(old) : new[i + 1] = old[i]
            [] call.kind = "update" ->
                 /\ Len(new) = Len(old)
                 /\ \A i \in 1..Len(old) :
                       IF old[i].id = call.sid
                       THEN /\ new[i].id = call.sid
                            /\ new[i].createdAt = old[i].createdAt
                            /\ call.u.hasMessages => new[i].messages = call.u.messages
                            /\ ~call.u.hasMessages => new[i].messages = old[i].messages
                            /\ call.u.hasTitle => new[i].title = call.u.title
                       ELSE new[i] = old[i]
            [] call.kind = "delete" ->
                 new = SelectSeq(old, LAMBDA x : x.id # call.sid)
            [] call.kind = "clear" -> CallConn \notin DOMAIN after

\* The store differs from the history a call read at most by the migration of
\* the connection's legacy list, which the call's own getChatSessions wrote.
OwnMigrationOnly(call, read, store) ==
    /\ \A d \in ConnIds \ {CallConn} : SameFor(read, store, d)
    /\ IF call.kind # "clear" /\ HoldsLegacy(read, CallConn)
       THEN /\ CallConn \in DOMAIN store
            /\ Len(store[CallConn]) = 1
            /\ "messages" \in DOMAIN store[CallConn][1]
            /\ store[CallConn][1].messages = read[CallConn]
       ELSE SameFor(read, store, CallConn)

\* C24: every mutation is one atomic read-modify-write: at most one caller is
\* between the read and the final write of a mutation, no other caller writes
\* the store in between (the store differs then from the history the mutation
\* read by nothing but the migration its own getChatSessions call made of the
\* connection's legacy list), and the final write changes the store by the
\* mutation's own effect only, so that in every interleaving of the callers the
\* effect of every completed operation is kept.
C24_AtomicReadModifyWrite ==
    /\ [](\A k \in Callers :
            turns[k].pc = "writing" =>
               /\ \A j \in Callers \ {k} : turns[j].pc # "writing"
               /\ OwnMigrationOnly(turns[k].call, turns[k].read, chatHistory))
    /\ [][\A k \in Callers :
            FinishCall(k) => OwnEffect(turns[k].call, chatHistory, chatHistory')]_vars

\* C24 witness: a caller is between the read and the final write of an
\* updateChatSession call on a list of two sessions while the turn of the other
\* caller awaits its generateChatResponse call.
C24_Witness ==
    /\ turns["t1"].pc = "writing"
    /\ turns["t1"].call.kind = "update"
    /\ turns["t2"].pc = "awaiting"
    /\ Len(turns["t1"].read[CallConn]) = 2

\* C25: an updateChatSession call that passes messages replaces the messages of
\* the session by the list passed, without merging: after the call the
\* connection holds exactly one session with the id, its messages are the list
\* passed, and the other sessions and connections are as before; so of two
\* turns in flight the one whose call runs last decides the stored messages.
C25_LastWriteWins ==
    [][\A k \in Callers :
         (FinishCall(k) /\ turns[k].call.kind = "update" /\ turns[k].call.u.hasMessages) =>
            LET old == ListOf(chatHistory, CallConn)
                new == ListOf(chatHistory', CallConn)
                at == {i \in 1..Len(new) : new[i].id = turns[k].call.sid}
            IN /\ Cardinality(at) = 1
               /\ \A i \in at : new[i].messages = turns[k].call.u.messages
               /\ Len(new) = Len(old)
               /\ \A i \in (1..Len(new)) \ at : new[i] = old[i]
               /\ \A d \in ConnIds \ {CallConn} : SameFor(chatHistory, chatHistory', d)]_vars

\* C25 witness: both turns read the empty message list of the one session, the
\* call of t2 ran first and the call of t1 last: the session holds the list of
\* t1, without the message of t2.
C25_Witness ==
    /\ \A k \in Callers : turns[k].turned /\ turns[k].pc = "idle"
    /\ nextId = 1
    /\ CallConn \in DOMAIN chatHistory
    /\ Len(chatHistory[CallConn]) = 1
    /\ chatHistory[CallConn][1].id = 1
    /\ chatHistory[CallConn][1].messages = <<MsgShow>>

====
